---- MODULE Spec2Model ----
(***************************************************************************)
(* Model of the piranhas package: the path accessor (path.go), the        *)
(* default-value filler (defaults.go) and the introspection helpers       *)
(* (unexported.go).                                                        *)
(*                                                                         *)
(* Go strings are modelled as sequences of one-character strings, so that *)
(* tokenizing, prefix trimming and numeric parsing are computed character *)
(* by character as the code computes them.                                 *)
(***************************************************************************)
EXTENDS Integers, Sequences, FiniteSets, TLC

VARIABLES
    graph,   \* the object graph the caller owns (root value, behind the pointer passed in)
    mem,     \* backing arrays of the byte slices: address -> sequence of bytes
    ret,     \* what the last call returned to the caller
    pre,     \* the graph as it was when the last call started
    op       \* the last call and its inputs

vars == <<graph, mem, ret, pre, op>>

-----------------------------------------------------------------------------
(* Bounds of the model *)

MaxSliceLen == 2
MaxPathElems == 3
MaxPathLen == 4

-----------------------------------------------------------------------------
(* Characters *)

\* the code points below ' ' that the model's alphabet contains
ControlChars == {"\t", "\n"}

\* unicode.IsSpace restricted to the model's alphabet
IsSpace(c) == c \in {" ", "\t", "\n"}

UpperChars == {"A", "B", "C", "D", "E", "F", "G", "H", "I", "J", "K", "L", "M",
               "N", "O", "P", "Q", "R", "S", "T", "U", "V", "W", "X", "Y", "Z"}

Digits == {"0", "1", "2", "3", "4", "5", "6", "7", "8", "9"}

DigitVal(c) ==
    CASE c = "0" -> 0 [] c = "1" -> 1 [] c = "2" -> 2 [] c = "3" -> 3 [] c = "4" -> 4
      [] c = "5" -> 5 [] c = "6" -> 6 [] c = "7" -> 7 [] c = "8" -> 8 [] c = "9" -> 9

\* token.IsExported: the first character of the name is an upper-case letter
IsExported(name) == Len(name) > 0 /\ name[1] \in UpperChars

RECURSIVE DropWhileSpace(_)
DropWhileSpace(s) ==
    IF s = <<>> THEN <<>>
    ELSE IF IsSpace(s[1]) THEN DropWhileSpace(Tail(s)) ELSE s

RECURSIVE DropTrailingSpace(_)
DropTrailingSpace(s) ==
    IF s = <<>> THEN <<>>
    ELSE IF IsSpace(s[Len(s)]) THEN DropTrailingSpace(SubSeq(s, 1, Len(s) - 1)) ELSE s

\* strings.TrimSpace
TrimSpace(s) == DropTrailingSpace(DropWhileSpace(s))

HasPrefix(s, p) == Len(s) >= Len(p) /\ SubSeq(s, 1, Len(p)) = p

\* strings.TrimPrefix
TrimPrefix(s, p) == IF HasPrefix(s, p) THEN SubSeq(s, Len(p) + 1, Len(s)) ELSE s

-----------------------------------------------------------------------------
(* parsePath: the path tokenizer *)

TokInit == [elems |-> <<>>, element |-> <<>>, esc |-> FALSE, quo |-> FALSE,
            brk |-> FALSE, err |-> "nil"]

TokFail(st, e) == [st EXCEPT !.err = e]

TokAppend(st, c) == [st EXCEPT !.element = Append(@, c)]

\* the flush without the reset of the element under construction
TokFlush_KeepElement(st) ==
    IF st.element # <<>>
    THEN [st EXCEPT !.elems = Append(@, st.element)]
    ELSE st

\* if element != "" { pathelements = append(pathelements, element); element = "" }
TokFlush(st) ==
    IF st.element # <<>>
    THEN [st EXCEPT !.elems = Append(@, st.element), !.element = <<>>]
    ELSE st

\* the loop body that lets a bracket open inside brackets
TokStep_NestedAllowed(st, c) ==
    CASE c \in {".", "/"} ->
           IF st.esc THEN [TokAppend(st, c) EXCEPT !.esc = FALSE]
           ELSE IF st.quo THEN TokAppend(st, c)
           ELSE IF st.brk THEN TokFail(st, "errEndSquareBracketsOpen")
           ELSE TokFlush(st)
      [] c = "\\" ->
           IF st.esc THEN [TokAppend(st, c) EXCEPT !.esc = FALSE]
           ELSE IF st.quo THEN [st EXCEPT !.esc = TRUE]
           ELSE IF st.brk THEN TokFail(st, "errEndSquareBracketsOpen")
           ELSE TokFlush(st)
      [] c = "[" ->
           IF st.esc THEN [TokAppend(st, c) EXCEPT !.esc = FALSE]
           ELSE IF st.quo THEN TokAppend(st, c)
           ELSE IF st.brk THEN TokFlush(st)
           ELSE [TokFlush(st) EXCEPT !.brk = TRUE]
      [] c = "]" ->
           IF st.esc THEN [TokAppend(st, c) EXCEPT !.esc = FALSE]
           ELSE IF st.quo THEN TokAppend(st, c)
           ELSE IF st.brk THEN [TokFlush(st) EXCEPT !.brk = FALSE]
           ELSE TokFail(st, "errLostCloseSquareBracket")
      [] c = "\"" ->
           IF st.esc THEN [TokAppend(st, c) EXCEPT !.esc = FALSE]
           ELSE IF st.quo THEN [st EXCEPT !.quo = FALSE]
           ELSE [st EXCEPT !.quo = TRUE]
      [] OTHER ->
           IF st.esc THEN TokFail(st, "errUnknownEscChar")
           ELSE IF st.quo
           THEN IF c \in ControlChars THEN TokFail(st, "errControlChar")
                ELSE TokAppend(st, c)
           ELSE IF c \in ControlChars THEN TokFail(st, "errControlChar")
                ELSE IF IsSpace(c) THEN TokFail(st, "errSpaceInElement")
                ELSE TokAppend(st, c)

\* the loop body that takes any character after the escape sign
TokStep_AnyEscape(st, c) ==
    CASE c \in {".", "/"} ->
           IF st.esc THEN [TokAppend(st, c) EXCEPT !.esc = FALSE]
           ELSE IF st.quo THEN TokAppend(st, c)
           ELSE IF st.brk THEN TokFail(st, "errEndSquareBracketsOpen")
           ELSE TokFlush(st)
      [] c = "\\" ->
           IF st.esc THEN [TokAppend(st, c) EXCEPT !.esc = FALSE]
           ELSE IF st.quo THEN [st EXCEPT !.esc = TRUE]
           ELSE IF st.brk THEN TokFail(st, "errEndSquareBracketsOpen")
           ELSE TokFlush(st)
      [] c = "[" ->
           IF st.esc THEN [TokAppend(st, c) EXCEPT !.esc = FALSE]
           ELSE IF st.quo THEN TokAppend(st, c)
           ELSE IF st.brk THEN TokFail(st, "errNesstedSquareBracketsNotPermitted")
           ELSE [TokFlush(st) EXCEPT !.brk = TRUE]
      [] c = "]" ->
           IF st.esc THEN [TokAppend(st, c) EXCEPT !.esc = FALSE]
           ELSE IF st.quo THEN TokAppend(st, c)
           ELSE IF st.brk THEN [TokFlush(st) EXCEPT !.brk = FALSE]
           ELSE TokFail(st, "errLostCloseSquareBracket")
      [] c = "\"" ->
           IF st.esc THEN [TokAppend(st, c) EXCEPT !.esc = FALSE]
           ELSE IF st.quo THEN [st EXCEPT !.quo = FALSE]
           ELSE [st EXCEPT !.quo = TRUE]
      [] OTHER ->
           IF st.esc THEN [TokAppend(st, c) EXCEPT !.esc = FALSE]
           ELSE IF st.quo
           THEN IF c \in ControlChars THEN TokFail(st, "errControlChar")
                ELSE TokAppend(st, c)
           ELSE IF c \in ControlChars THEN TokFail(st, "errControlChar")
                ELSE IF IsSpace(c) THEN TokFail(st, "errSpaceInElement")
                ELSE TokAppend(st, c)

\* the loop body that takes a control character inside quotes
TokStep_QuotedControl(st, c) ==
    CASE c \in {".", "/"} ->
           IF st.esc THEN [TokAppend(st, c) EXCEPT !.esc = FALSE]
           ELSE IF st.quo THEN TokAppend(st, c)
           ELSE IF st.brk THEN TokFail(st, "errEndSquareBracketsOpen")
           ELSE TokFlush(st)
      [] c = "\\" ->
           IF st.esc THEN [TokAppend(st, c) EXCEPT !.esc = FALSE]
           ELSE IF st.quo THEN [st EXCEPT !.esc = TRUE]
           ELSE IF st.brk THEN TokFail(st, "errEndSquareBracketsOpen")
           ELSE TokFlush(st)
      [] c = "[" ->
           IF st.esc THEN [TokAppend(st, c) EXCEPT !.esc = FALSE]
           ELSE IF st.quo THEN TokAppend(st, c)
           ELSE IF st.brk THEN TokFail(st, "errNesstedSquareBracketsNotPermitted")
           ELSE [TokFlush(st) EXCEPT !.brk = TRUE]
      [] c = "]" ->
           IF st.esc THEN [TokAppend(st, c) EXCEPT !.esc = FALSE]
           ELSE IF st.quo THEN TokAppend(st, c)
           ELSE IF st.brk THEN [TokFlush(st) EXCEPT !.brk = FALSE]
           ELSE TokFail(st, "errLostCloseSquareBracket")
      [] c = "\"" ->
           IF st.esc THEN [TokAppend(st, c) EXCEPT !.esc = FALSE]
           ELSE IF st.quo THEN [st EXCEPT !.quo = FALSE]
           ELSE [st EXCEPT !.quo = TRUE]
      [] OTHER ->
           IF st.esc THEN TokFail(st, "errUnknownEscChar")
           ELSE IF st.quo THEN TokAppend(st, c)
           ELSE IF c \in ControlChars THEN TokFail(st, "errControlChar")
                ELSE IF IsSpace(c) THEN TokFail(st, "errSpaceInElement")
                ELSE TokAppend(st, c)

\* the loop body that takes a dot or a slash inside quotes for a separator
TokStep_QuotedDotSplits(st, c) ==
    CASE c \in {".", "/"} ->
           IF st.esc THEN [TokAppend(st, c) EXCEPT !.esc = FALSE]
           ELSE IF st.quo THEN TokFlush(st)
           ELSE IF st.brk THEN TokFail(st, "errEndSquareBracketsOpen")
           ELSE TokFlush(st)
      [] c = "\\" ->
           IF st.esc THEN [TokAppend(st, c) EXCEPT !.esc = FALSE]
           ELSE IF st.quo THEN [st EXCEPT !.esc = TRUE]
           ELSE IF st.brk THEN TokFail(st, "errEndSquareBracketsOpen")
           ELSE TokFlush(st)
      [] c = "[" ->
           IF st.esc THEN [TokAppend(st, c) EXCEPT !.esc = FALSE]
           ELSE IF st.quo THEN TokAppend(st, c)
           ELSE IF st.brk THEN TokFail(st, "errNesstedSquareBracketsNotPermitted")
           ELSE [TokFlush(st) EXCEPT !.brk = TRUE]
      [] c = "]" ->
           IF st.esc THEN [TokAppend(st, c) EXCEPT !.esc = FALSE]
           ELSE IF st.quo THEN TokAppend(st, c)
           ELSE IF st.brk THEN [TokFlush(st) EXCEPT !.brk = FALSE]
           ELSE TokFail(st, "errLostCloseSquareBracket")
      [] c = "\"" ->
           IF st.esc THEN [TokAppend(st, c) EXCEPT !.esc = FALSE]
           ELSE IF st.quo THEN [st EXCEPT !.quo = FALSE]
           ELSE [st EXCEPT !.quo = TRUE]
      [] OTHER ->
           IF st.esc THEN TokFail(st, "errUnknownEscChar")
           ELSE IF st.quo
           THEN IF c \in ControlChars THEN TokFail(st, "errControlChar")
                ELSE TokAppend(st, c)
           ELSE IF c \in ControlChars THEN TokFail(st, "errControlChar")
                ELSE IF IsSpace(c) THEN TokFail(st, "errSpaceInElement")
                ELSE TokAppend(st, c)

\* one iteration of the loop over the characters of the path
TokStep(st, c) ==
    CASE c \in {".", "/"} ->
           IF st.esc THEN [TokAppend(st, c) EXCEPT !.esc = FALSE]
           ELSE IF st.quo THEN TokAppend(st, c)
           ELSE IF st.brk THEN TokFail(st, "errEndSquareBracketsOpen")
           ELSE TokFlush(st)
      [] c = "\\" ->
           IF st.esc THEN [TokAppend(st, c) EXCEPT !.esc = FALSE]
           ELSE IF st.quo THEN [st EXCEPT !.esc = TRUE]
           ELSE IF st.brk THEN TokFail(st, "errEndSquareBracketsOpen")
           ELSE TokFlush(st)
      [] c = "[" ->
           IF st.esc THEN [TokAppend(st, c) EXCEPT !.esc = FALSE]
           ELSE IF st.quo THEN TokAppend(st, c)
           ELSE IF st.brk THEN TokFail(st, "errNesstedSquareBracketsNotPermitted")
           ELSE [TokFlush(st) EXCEPT !.brk = TRUE]
      [] c = "]" ->
           IF st.esc THEN [TokAppend(st, c) EXCEPT !.esc = FALSE]
           ELSE IF st.quo THEN TokAppend(st, c)
           ELSE IF st.brk THEN [TokFlush(st) EXCEPT !.brk = FALSE]
           ELSE TokFail(st, "errLostCloseSquareBracket")
      [] c = "\"" ->
           IF st.esc THEN [TokAppend(st, c) EXCEPT !.esc = FALSE]
           ELSE IF st.quo THEN [st EXCEPT !.quo = FALSE]
           ELSE [st EXCEPT !.quo = TRUE]
      [] OTHER ->
           IF st.esc THEN TokFail(st, "errUnknownEscChar")
           ELSE IF st.quo
           THEN IF c \in ControlChars THEN TokFail(st, "errControlChar")
                ELSE TokAppend(st, c)
           ELSE IF c \in ControlChars THEN TokFail(st, "errControlChar")
                ELSE IF IsSpace(c) THEN TokFail(st, "errSpaceInElement")
                ELSE TokAppend(st, c)

\* the loop: the first error returns at once
RECURSIVE TokLoop(_, _, _)
TokLoop(st, path, i) ==
    IF st.err # "nil" \/ i > Len(path) THEN st
    ELSE TokLoop(TokStep(st, path[i]), path, i + 1)

\* the checks after the loop without the one for brackets left open
TokEnd_OpenBracketsPass(st) ==
    IF st.err # "nil" THEN st
    ELSE IF st.esc THEN TokFail(st, "errEscape2Chars")
    ELSE IF st.quo THEN TokFail(st, "errEndQuotsOpen")
    ELSE TokFlush(st)

\* the checks after the loop
TokEnd(st) ==
    IF st.err # "nil" THEN st
    ELSE IF st.esc THEN TokFail(st, "errEscape2Chars")
    ELSE IF st.quo THEN TokFail(st, "errEndQuotsOpen")
    ELSE IF st.brk THEN TokFail(st, "errEndSquareBracketsOpen")
    ELSE TokFlush(st)

\* remove empty elements
NonEmptyElements(es) == SelectSeq(es, LAMBDA e : e # <<>>)

\* the tokenizer that adds the element under construction as the last one
\* whatever it holds, and removes nothing
parsePath_KeepsEmpty(p) ==
    LET path  == TrimPrefix(TrimPrefix(TrimSpace(p), <<"$", ".", ".">>), <<"$", ".">>)
        patht == TrimSpace(path)
    IN IF patht = <<>> THEN [elems |-> <<>>, err |-> "nil"]
       ELSE LET st == TokLoop(TokInit, path, 1)
            IN IF TokEnd(st).err # "nil" THEN [elems |-> <<>>, err |-> TokEnd(st).err]
               ELSE [elems |-> Append(st.elems, st.element), err |-> "nil"]

\* parsePath(path) returns [elems, err]
parsePath(p) ==
    LET path  == TrimPrefix(TrimPrefix(TrimSpace(p), <<"$", ".", ".">>), <<"$", ".">>)
        patht == TrimSpace(path)
    IN IF patht = <<>> THEN [elems |-> <<>>, err |-> "nil"]
       ELSE LET st == TokEnd(TokLoop(TokInit, path, 1))
            IN IF st.err # "nil" THEN [elems |-> <<>>, err |-> st.err]
               ELSE [elems |-> NonEmptyElements(st.elems), err |-> "nil"]

-----------------------------------------------------------------------------
(* Types (reflect.Type) and values.  A value is [t |-> type, v |-> payload]:
   scalar: the scalar; pointer: <<>> when nil, <<target>> otherwise;
   struct: the sequence of its field values; slice: the sequence of its
   elements, or the address of its backing array in mem for a byte slice;
   map: a function from keys to values. *)

TScalar(k) == [kind |-> k, name |-> k]
TDuration == [kind |-> "int64", name |-> "time.Duration"]
TPtr(e) == [kind |-> "ptr", elem |-> e]
TSlice(e) == [kind |-> "slice", elem |-> e]
TMap(k, e) == [kind |-> "map", key |-> k, elem |-> e]
TStruct(n, fs) == [kind |-> "struct", name |-> n, fields |-> fs]
TBytes == TSlice(TScalar("uint8"))

\* a struct field: name, type, the `default` and `layout` tag keys, embedded or not
Fld(n, t, tag) == [name |-> n, type |-> t, tag |-> tag, layout |-> <<>>, embedded |-> FALSE]
Emb(n, t) == [name |-> n, type |-> t, tag |-> <<>>, layout |-> <<>>, embedded |-> TRUE]
\* a field with a `default` and a `layout` key
FldL(n, t, tag, layout) == [Fld(n, t, tag) EXCEPT !.layout = layout]

IntKinds == {"int", "int8", "int16", "int32", "int64"}
UintKinds == {"uint", "uint8", "uint16", "uint32", "uint64"}
FloatKinds == {"float32", "float64"}
ComplexKinds == {"complex64", "complex128"}

\* reflect.Type.Bits
Bits(k) ==
    CASE k \in {"int8", "uint8"} -> 8
      [] k \in {"int16", "uint16"} -> 16
      [] k \in {"int32", "uint32", "float32"} -> 32
      [] OTHER -> 64

Val(t, v) == [t |-> t, v |-> v]

IsNilPtr(n) == n.t.kind = "ptr" /\ n.v = <<>>

-----------------------------------------------------------------------------
(* strconv *)

RECURSIVE DigitsValue(_, _)
DigitsValue(s, acc) ==
    IF s = <<>> THEN acc ELSE DigitsValue(Tail(s), acc * 10 + DigitVal(s[1]))

AllDigits(s) == s # <<>> /\ \A i \in 1..Len(s) : s[i] \in Digits

Pow2(n) == 2 ^ n

\* strconv.ParseUint(s, 10, bits): [ok, v].  The model's literals are short, so
\* the range check only bites below 32 bits.
ParseUint(s, bits) ==
    IF ~AllDigits(s) THEN [ok |-> FALSE, v |-> 0]
    ELSE LET n == DigitsValue(s, 0)
         IN IF bits < 32 /\ n >= Pow2(bits) THEN [ok |-> FALSE, v |-> 0]
            ELSE [ok |-> TRUE, v |-> n]

\* strconv.ParseInt(s, 10, bits): optional sign, decimal digits, range check
ParseInt(s, bits) ==
    IF s = <<>> THEN [ok |-> FALSE, v |-> 0]
    ELSE LET neg  == s[1] = "-"
             body == IF s[1] \in {"+", "-"} THEN Tail(s) ELSE s
         IN IF ~AllDigits(body) THEN [ok |-> FALSE, v |-> 0]
            ELSE LET n == DigitsValue(body, 0)
                 IN IF bits < 32 /\ ~neg /\ n >= Pow2(bits - 1) THEN [ok |-> FALSE, v |-> 0]
                    ELSE IF bits < 32 /\ neg /\ n > Pow2(bits - 1) THEN [ok |-> FALSE, v |-> 0]
                    ELSE [ok |-> TRUE, v |-> IF neg THEN 0 - n ELSE n]

\* strconv.Atoi
Atoi(s) == ParseInt(s, 64)

\* a float value: m * 10^(-e), the fraction without trailing zeros
RECURSIVE NormalFloat(_, _)
NormalFloat(m, e) ==
    IF e > 0 /\ m % 10 = 0 THEN NormalFloat(m \div 10, e - 1) ELSE [m |-> m, e |-> e]

\* strconv.ParseFloat(s, bits) for the decimal literals of the model: optional
\* sign, digits, optional point and digits (no exponent, infinity, NaN or
\* hexadecimal form); the model's literals are exact at both widths
ParseFloat(s, bits) ==
    IF s = <<>> THEN [ok |-> FALSE, v |-> NormalFloat(0, 0)]
    ELSE LET neg   == s[1] = "-"
             body  == IF s[1] \in {"+", "-"} THEN Tail(s) ELSE s
             dots  == {i \in 1..Len(body) : body[i] = "."}
             dot   == IF dots = {} THEN Len(body) + 1 ELSE CHOOSE i \in dots : TRUE
             whole == SubSeq(body, 1, dot - 1)
             frac  == SubSeq(body, dot + 1, Len(body))
         IN IF Cardinality(dots) > 1 \/ ~AllDigits(whole \o frac)
            THEN [ok |-> FALSE, v |-> NormalFloat(0, 0)]
            ELSE LET n == DigitsValue(whole \o frac, 0)
                 IN [ok |-> TRUE, v |-> NormalFloat(IF neg THEN 0 - n ELSE n, Len(frac))]

BoolTrueLits == {<<"1">>, <<"t">>, <<"T">>, <<"T", "R", "U", "E">>,
                 <<"t", "r", "u", "e">>, <<"T", "r", "u", "e">>}
BoolFalseLits == {<<"0">>, <<"f">>, <<"F">>, <<"F", "A", "L", "S", "E">>,
                  <<"f", "a", "l", "s", "e">>, <<"F", "a", "l", "s", "e">>}

\* strconv.ParseBool
ParseBool(s) ==
    IF s \in BoolTrueLits THEN [ok |-> TRUE, v |-> TRUE]
    ELSE IF s \in BoolFalseLits THEN [ok |-> TRUE, v |-> FALSE]
    ELSE [ok |-> FALSE, v |-> FALSE]

-----------------------------------------------------------------------------
(* reflect.Value: [n |-> value, ro |-> read-only flag bits].  A value reached
   through an unexported field carries a read-only bit and cannot be turned
   into an interface by Interface(). *)

RV(n, ro) == [n |-> n, ro |-> ro]

InvalidRV == [n |-> [t |-> [kind |-> "invalid", name |-> "invalid"], v |-> 0], ro |-> {}]

IsValid(rv) == rv.n.t.kind # "invalid"

\* Value.Elem of a non-nil pointer keeps both read-only bits
Elem(rv) == RV(rv.n.v[1], rv.ro)

\* Value.Field(i): the sticky bit is inherited, an unexported field adds its own
Field(rv, i) ==
    LET f == rv.n.t.fields[i]
    IN RV(rv.n.v[i],
          (rv.ro \cap {"sticky"}) \cup
          (IF IsExported(f.name) THEN {}
           ELSE IF f.embedded THEN {"embed"} ELSE {"sticky"}))

\* Value.Index(i), 0-based as in Go
Index(rv, i) ==
    RV(IF rv.n.t = TBytes THEN Val(TScalar("uint8"), mem[rv.n.v][i + 1]) ELSE rv.n.v[i + 1],
       IF rv.ro # {} THEN {"sticky"} ELSE {})

\* Value.MapIndex(key): the zero Value when the key is absent
MapIndex(rv, key) ==
    IF key \in DOMAIN rv.n.v
    THEN RV(rv.n.v[key], IF rv.ro # {} THEN {"sticky"} ELSE {})
    ELSE InvalidRV

CanInterface(rv) == rv.ro = {}

\* Value.Len of a slice
SliceLen(n) == IF n.t = TBytes THEN Len(mem[n.v]) ELSE Len(n.v)

\* indexes of the fields of struct type t named exactly name
DirectMatches(t, name) == {i \in 1..Len(t.fields) : t.fields[i].name = name}

\* index paths of the embedded struct fields of the structs at paths ps
EmbeddedType(f) == IF f.type.kind = "ptr" THEN f.type.elem ELSE f.type

RECURSIVE TypeAt(_, _)
TypeAt(t, p) ==
    IF p = <<>> THEN t
    ELSE TypeAt(EmbeddedType(t.fields[p[1]]), Tail(p))

NextLevel(t, ps) ==
    UNION {{Append(p, i) : i \in {j \in 1..Len(TypeAt(t, p).fields) :
                                     /\ TypeAt(t, p).fields[j].embedded
                                     /\ EmbeddedType(TypeAt(t, p).fields[j]).kind = "struct"}}
           : p \in ps}

\* Type.FieldByName: breadth-first over the embedded structs; the shallowest
\* level with a match decides, and more than one match there is ambiguous
RECURSIVE FieldPathByName(_, _, _)
FieldPathByName(t, ps, name) ==
    IF ps = {} THEN <<>>
    ELSE LET hits == UNION {{Append(p, i) : i \in DirectMatches(TypeAt(t, p), name)} : p \in ps}
         IN IF Cardinality(hits) = 1 THEN CHOOSE h \in hits : TRUE
            ELSE IF Cardinality(hits) > 1 THEN <<>>
            ELSE FieldPathByName(t, NextLevel(t, ps), name)

\* Value.FieldByIndex
RECURSIVE FieldByIndex(_, _)
FieldByIndex(rv, p) ==
    IF p = <<>> THEN rv
    ELSE LET s == IF rv.n.t.kind = "ptr" THEN Elem(rv) ELSE rv
         IN FieldByIndex(Field(s, p[1]), Tail(p))

\* Value.FieldByName: the zero Value when no field has that name
FieldByName(rv, name) ==
    LET p == FieldPathByName(rv.n.t, {<<>>}, name)
    IN IF p = <<>> THEN InvalidRV ELSE FieldByIndex(rv, p)

-----------------------------------------------------------------------------
(* The path resolver.  A call returns [val |-> interface value, err |-> error];
   an interface value is [type |-> dynamic type, v |-> payload]. *)

NilIface == [type |-> [kind |-> "nil", name |-> "nil"], v |-> 0]

Iface(t, v) == [type |-> t, v |-> v]

Ok(i) == [val |-> i, err |-> "nil"]
Fail(e) == [val |-> NilIface, err |-> e]

\* the pointer loop at the head of getInterfaceOfValue
RECURSIVE DerefAll(_)
DerefAll(rv) ==
    IF rv.n.t.kind = "ptr" /\ rv.n.v # <<>> THEN DerefAll(Elem(rv)) ELSE rv

\* the last lines of getInterfaceOfValue: everything not dealt with by kind
InterfaceOrError(rv) ==
    IF CanInterface(rv) THEN Ok(Iface(rv.n.t, rv.n.v))
    ELSE Fail("errIsNotInterfaceable")

\* Value.Bytes: the slice header of the stored byte slice, sharing its backing array
Bytes(rv) == Iface(TBytes, rv.n.v)

\* createTimeFromWallExtLoc: a time.Time rebuilt from the three internal fields
createTimeFromWallExtLoc(wall, ext, loc) == Iface(TScalar("time.Time"), <<wall, ext, loc>>)

\* a resolver that reports an unset pointer as a segment that does not exist
getInterfaceOfValue_NilIsMissing(rv0) ==
    LET rv == DerefAll(rv0)
        k  == rv.n.t.kind
    IN IF k = "ptr" THEN Fail("errObjNotExists")
       ELSE IF k = "invalid" THEN Ok(NilIface)
       ELSE IF k \in {"string", "bool", "int", "int16", "int32"} THEN Ok(Iface(TScalar(k), rv.n.v))
       ELSE IF k = "int64"
       THEN IF rv.n.t.name = "time.Duration" THEN Ok(Iface(TDuration, rv.n.v))
            ELSE Ok(Iface(TScalar("int64"), rv.n.v))
       ELSE IF k \in UintKinds \cup FloatKinds \cup ComplexKinds THEN Ok(Iface(TScalar(k), rv.n.v))
       ELSE IF k = "struct" /\ rv.n.t.name = "time.Time"
       THEN Ok(createTimeFromWallExtLoc(FieldByName(rv, <<"w", "a", "l", "l">>).n.v,
                                        FieldByName(rv, <<"e", "x", "t">>).n.v,
                                        FieldByName(rv, <<"l", "o", "c">>).n.v))
       ELSE IF k = "slice" /\ rv.n.t.elem.kind = "uint8" THEN Ok(Bytes(rv))
       ELSE InterfaceOrError(rv)

getInterfaceOfValue(rv0) ==
    LET rv == DerefAll(rv0)
        k  == rv.n.t.kind
    IN IF k = "ptr" THEN Ok(NilIface)
       ELSE IF k = "invalid" THEN Ok(NilIface)
       ELSE IF k \in {"string", "bool", "int", "int16", "int32"} THEN Ok(Iface(TScalar(k), rv.n.v))
       ELSE IF k = "int64"
       THEN IF rv.n.t.name = "time.Duration" THEN Ok(Iface(TDuration, rv.n.v))
            ELSE Ok(Iface(TScalar("int64"), rv.n.v))
       ELSE IF k \in UintKinds \cup FloatKinds \cup ComplexKinds THEN Ok(Iface(TScalar(k), rv.n.v))
       ELSE IF k = "struct" /\ rv.n.t.name = "time.Time"
       THEN Ok(createTimeFromWallExtLoc(FieldByName(rv, <<"w", "a", "l", "l">>).n.v,
                                        FieldByName(rv, <<"e", "x", "t">>).n.v,
                                        FieldByName(rv, <<"l", "o", "c">>).n.v))
       ELSE IF k = "slice" /\ rv.n.t.elem.kind = "uint8" THEN Ok(Bytes(rv))
       ELSE InterfaceOrError(rv)

\* the element of a map for a path element, by the kind of the map's key:
\* [rv |-> element or the zero Value, err]
\* reflect.Value.MapIndex panics when the key's type is not assignable to the
\* map's key type: reflect.ValueOf of a string or a bool has the predeclared
\* type, which is not assignable to a defined type of that kind
Assignable(keyType, kind) == keyType.name = kind

MapElem(rv, e) ==
    LET keyType == rv.n.t.key
        kk == keyType.kind
    IN IF kk = "string"
       THEN IF Assignable(keyType, "string") THEN [rv |-> MapIndex(rv, e), err |-> "nil"]
            ELSE [rv |-> InvalidRV, err |-> "panic"]
       ELSE IF kk \in IntKinds
       THEN LET r == ParseInt(e, Bits(kk))
            IN IF r.ok THEN [rv |-> MapIndex(rv, r.v), err |-> "nil"]
               ELSE [rv |-> InvalidRV, err |-> "errObjNotExists"]
       ELSE IF kk \in UintKinds
       THEN LET r == ParseUint(e, Bits(kk))
            IN IF r.ok THEN [rv |-> MapIndex(rv, r.v), err |-> "nil"]
               ELSE [rv |-> InvalidRV, err |-> "errObjNotExists"]
       ELSE IF kk \in FloatKinds
       THEN LET r == ParseFloat(e, Bits(kk))
            IN IF r.ok THEN [rv |-> MapIndex(rv, r.v), err |-> "nil"]
               ELSE [rv |-> InvalidRV, err |-> "errObjNotExists"]
       ELSE IF kk = "bool"
       THEN LET r == ParseBool(e)
            IN IF ~r.ok THEN [rv |-> InvalidRV, err |-> "errObjNotExists"]
               ELSE IF Assignable(keyType, "bool") THEN [rv |-> MapIndex(rv, r.v), err |-> "nil"]
               ELSE [rv |-> InvalidRV, err |-> "panic"]
       ELSE [rv |-> InvalidRV, err |-> "unsupported key type: " \o kk]

RECURSIVE returnPathElement(_, _)
RECURSIVE getPathContainer(_, _)

\* the resolver that takes an unset reference with elements left for "not found"
returnPathElement_NilEndsPath(rv0, pathelements) ==
    LET rv == DerefAll(rv0)
    IN IF rv.n.t.kind = "ptr" THEN Ok(NilIface)
       ELSE IF Len(pathelements) = 0 THEN getInterfaceOfValue(rv)
       ELSE IF rv.n.t.kind \in {"struct", "slice", "array", "map"}
       THEN getPathContainer(rv, pathelements)
       ELSE Fail("errPathToLong")

returnPathElement(rv0, pathelements) ==
    LET rv == DerefAll(rv0)
    IN IF rv.n.t.kind = "ptr"
       THEN IF Len(pathelements) = 0 THEN Ok(NilIface) ELSE Fail("errPathToLong")
       ELSE IF Len(pathelements) = 0 THEN getInterfaceOfValue(rv)
       ELSE IF rv.n.t.kind \in {"struct", "slice", "array", "map"}
       THEN getPathContainer(rv, pathelements)
       ELSE Fail("errPathToLong")

getPathContainer(rv0, pathelements) ==
    IF Len(pathelements) = 0 THEN Fail("errPathToShort")
    ELSE
    LET rv == DerefAll(rv0)
        k  == rv.n.t.kind
        e  == pathelements[1]
        found ==
            IF k = "struct"
            THEN LET f == FieldByName(rv, e)
                 IN IF IsValid(f) THEN [rv |-> f, err |-> "nil"]
                    ELSE [rv |-> InvalidRV, err |-> "errObjNotExists"]
            ELSE IF k \in {"slice", "array"}
            THEN LET r == Atoi(e)
                 IN IF ~r.ok \/ r.v < 0 \/ r.v >= SliceLen(rv.n)
                    THEN [rv |-> InvalidRV, err |-> "errObjNotExists"]
                    ELSE [rv |-> Index(rv, r.v), err |-> "nil"]
            ELSE IF k = "map"
            THEN LET m == MapElem(rv, e)
                 IN IF m.err # "nil" THEN m
                    ELSE IF IsValid(m.rv) THEN m
                    ELSE [rv |-> InvalidRV, err |-> "errObjNotExists"]
            ELSE [rv |-> InvalidRV, err |-> "errWrongElementType"]
    IN IF k = "ptr" THEN Ok(NilIface)
       ELSE IF found.err # "nil" THEN Fail(found.err)
       ELSE IF Len(pathelements) > 1 THEN returnPathElement(found.rv, Tail(pathelements))
       ELSE getInterfaceOfValue(found.rv)

\* GetPathInterface(obj, path): obj is the pointer to the graph's root
GetPathInterface(obj, path) ==
    LET p == parsePath(path)
    IN IF p.err # "nil" THEN Fail(p.err)
       ELSE returnPathElement(RV(obj, {}), p.elems)

-----------------------------------------------------------------------------
(* The typed getters GetPathString, GetPathBool, GetPathInt, ...: one
   definition for the eighteen functions, which differ only in the asserted
   type, the zero value and the name in the error text. *)

GetterTypes == {"string", "bool", "int", "int16", "int32", "int64",
                "uint", "uint8", "uint16", "uint32", "uint64",
                "float32", "float64", "complex64", "complex128",
                "[]byte", "time.Time", "time.Duration"}

\* the dynamic type the getter for T asserts: obj.(T)
AssertedType(T) ==
    CASE T = "[]byte" -> TBytes
      [] T = "time.Duration" -> TDuration
      [] OTHER -> TScalar(T)

NilAddr == 0

\* the zero value each getter returns together with an error
ZeroOf(T) ==
    CASE T = "string" -> <<>>
      [] T = "bool" -> FALSE
      [] T = "[]byte" -> NilAddr
      [] T = "time.Time" -> <<0, 0, <<>>>>
      [] OTHER -> 0

\* a getter that hands a nil result to the type assertion
GetPathTyped_NilUnchecked(T, ptr, path) ==
    LET r == GetPathInterface(ptr, path)
    IN IF r.err # "nil" THEN [val |-> Iface(AssertedType(T), ZeroOf(T)), err |-> r.err]
       ELSE IF r.val.type = AssertedType(T) THEN [val |-> r.val, err |-> "nil"]
       ELSE [val |-> Iface(AssertedType(T), ZeroOf(T)), err |-> "object is not a " \o T]

GetPathTyped(T, ptr, path) ==
    LET r == GetPathInterface(ptr, path)
    IN IF r.err # "nil" THEN [val |-> Iface(AssertedType(T), ZeroOf(T)), err |-> r.err]
       ELSE IF r.val = NilIface
       THEN [val |-> Iface(AssertedType(T), ZeroOf(T)), err |-> "errObjNotExists"]
       ELSE IF r.val.type = AssertedType(T) THEN [val |-> r.val, err |-> "nil"]
       ELSE [val |-> Iface(AssertedType(T), ZeroOf(T)), err |-> "object is not a " \o T]

-----------------------------------------------------------------------------
(* Letters and their case *)

Lower == <<"a", "b", "c", "d", "e", "f", "g", "h", "i", "j", "k", "l", "m",
           "n", "o", "p", "q", "r", "s", "t", "u", "v", "w", "x", "y", "z">>
Upper == <<"A", "B", "C", "D", "E", "F", "G", "H", "I", "J", "K", "L", "M",
           "N", "O", "P", "Q", "R", "S", "T", "U", "V", "W", "X", "Y", "Z">>

\* unicode.ToLower on the letters of the model
ToLowerChar(c) ==
    IF \E i \in 1..26 : Upper[i] = c THEN Lower[CHOOSE i \in 1..26 : Upper[i] = c] ELSE c

ToUpperChar(c) ==
    IF \E i \in 1..26 : Lower[i] = c THEN Upper[CHOOSE i \in 1..26 : Lower[i] = c] ELSE c

ToLower(s) == [i \in 1..Len(s) |-> ToLowerChar(s[i])]
ToUpper(s) == [i \in 1..Len(s) |-> ToUpperChar(s[i])]

\* two names equal up to the case of their letters
EqualFold(a, b) == ToLower(a) = ToLower(b)

LowerChars == {Lower[i] : i \in 1..26}

-----------------------------------------------------------------------------
(* The values and types the library itself builds *)

sWall == <<"w", "a", "l", "l">>
sExt == <<"e", "x", "t">>
sLoc == <<"l", "o", "c">>
sName == <<"n", "a", "m", "e">>

tString == TScalar("string")

Str(s) == Val(tString, s)
Nil(t) == Val(TPtr(t), <<>>)
Ref(n) == Val(TPtr(n.t), <<n>>)

\* time.Time and what it refers to, by the fields the code reads
tZone == TStruct("time.zone", <<Fld(sName, tString, <<>>)>>)
tLocation == TStruct("time.Location", <<Fld(sName, tString, <<>>),
                                        Fld(<<"c", "a", "c", "h", "e", "Z", "o", "n", "e">>, TPtr(tZone), <<>>)>>)
tTime == TStruct("time.Time", <<Fld(sWall, TScalar("uint64"), <<>>),
                                Fld(sExt, TScalar("int64"), <<>>),
                                Fld(sLoc, TPtr(tLocation), <<>>)>>)

-----------------------------------------------------------------------------
(* package time, as far as parseDefaultValue uses it.  A time.Time is the record
   of its fields wall, ext and loc.  The instants of the model are kept at the
   resolution of a second: ext holds the days since January 1 of year 1 and
   wall the second of the day (the seconds since year 1 that the library keeps
   in ext exceed 32-bit integers); loc is nil for UTC. *)

\* the layouts of package time
Layout == <<"0", "1", "/", "0", "2", " ", "0", "3", ":", "0", "4", ":", "0", "5", "P", "M", " ", "'", "0", "6", " ", "-", "0", "7", "0", "0">>
ANSIC == <<"M", "o", "n", " ", "J", "a", "n", " ", "_", "2", " ", "1", "5", ":", "0", "4", ":", "0", "5", " ", "2", "0", "0", "6">>
UnixDate == <<"M", "o", "n", " ", "J", "a", "n", " ", "_", "2", " ", "1", "5", ":", "0", "4", ":", "0", "5", " ", "M", "S", "T", " ", "2", "0", "0", "6">>
RubyDate == <<"M", "o", "n", " ", "J", "a", "n", " ", "0", "2", " ", "1", "5", ":", "0", "4", ":", "0", "5", " ", "-", "0", "7", "0", "0", " ", "2", "0", "0", "6">>
RFC822 == <<"0", "2", " ", "J", "a", "n", " ", "0", "6", " ", "1", "5", ":", "0", "4", " ", "M", "S", "T">>
RFC850 == <<"M", "o", "n", "d", "a", "y", ",", " ", "0", "2", "-", "J", "a", "n", "-", "0", "6", " ", "1", "5", ":", "0", "4", ":", "0", "5", " ", "M", "S", "T">>
RFC1123 == <<"M", "o", "n", ",", " ", "0", "2", " ", "J", "a", "n", " ", "2", "0", "0", "6", " ", "1", "5", ":", "0", "4", ":", "0", "5", " ", "M", "S", "T">>
RFC1123Z == <<"M", "o", "n", ",", " ", "0", "2", " ", "J", "a", "n", " ", "2", "0", "0", "6", " ", "1", "5", ":", "0", "4", ":", "0", "5", " ", "-", "0", "7", "0", "0">>
RFC3339 == <<"2", "0", "0", "6", "-", "0", "1", "-", "0", "2", "T", "1", "5", ":", "0", "4", ":", "0", "5", "Z", "0", "7", ":", "0", "0">>
RFC3339Nano == <<"2", "0", "0", "6", "-", "0", "1", "-", "0", "2", "T", "1", "5", ":", "0", "4", ":", "0", "5", ".", "9", "9", "9", "9", "9", "9", "9", "9", "9", "Z", "0", "7", ":", "0", "0">>
Kitchen == <<"3", ":", "0", "4", "P", "M">>
Stamp == <<"J", "a", "n", " ", "_", "2", " ", "1", "5", ":", "0", "4", ":", "0", "5">>
StampMilli == <<"J", "a", "n", " ", "_", "2", " ", "1", "5", ":", "0", "4", ":", "0", "5", ".", "0", "0", "0">>
StampMicro == <<"J", "a", "n", " ", "_", "2", " ", "1", "5", ":", "0", "4", ":", "0", "5", ".", "0", "0", "0", "0", "0", "0">>
StampNano == <<"J", "a", "n", " ", "_", "2", " ", "1", "5", ":", "0", "4", ":", "0", "5", ".", "0", "0", "0", "0", "0", "0", "0", "0", "0">>
DateTime == <<"2", "0", "0", "6", "-", "0", "1", "-", "0", "2", " ", "1", "5", ":", "0", "4", ":", "0", "5">>
DateOnly == <<"2", "0", "0", "6", "-", "0", "1", "-", "0", "2">>
TimeOnly == <<"1", "5", ":", "0", "4", ":", "0", "5">>

shortMonthNames ==
    <<<<"J", "a", "n">>,
    <<"F", "e", "b">>,
    <<"M", "a", "r">>,
    <<"A", "p", "r">>,
    <<"M", "a", "y">>,
    <<"J", "u", "n">>,
    <<"J", "u", "l">>,
    <<"A", "u", "g">>,
    <<"S", "e", "p">>,
    <<"O", "c", "t">>,
    <<"N", "o", "v">>,
    <<"D", "e", "c">>>>
longMonthNames ==
    <<<<"J", "a", "n", "u", "a", "r", "y">>,
    <<"F", "e", "b", "r", "u", "a", "r", "y">>,
    <<"M", "a", "r", "c", "h">>,
    <<"A", "p", "r", "i", "l">>,
    <<"M", "a", "y">>,
    <<"J", "u", "n", "e">>,
    <<"J", "u", "l", "y">>,
    <<"A", "u", "g", "u", "s", "t">>,
    <<"S", "e", "p", "t", "e", "m", "b", "e", "r">>,
    <<"O", "c", "t", "o", "b", "e", "r">>,
    <<"N", "o", "v", "e", "m", "b", "e", "r">>,
    <<"D", "e", "c", "e", "m", "b", "e", "r">>>>
shortDayNames ==
    <<<<"S", "u", "n">>,
    <<"M", "o", "n">>,
    <<"T", "u", "e">>,
    <<"W", "e", "d">>,
    <<"T", "h", "u">>,
    <<"F", "r", "i">>,
    <<"S", "a", "t">>>>
longDayNames ==
    <<<<"S", "u", "n", "d", "a", "y">>,
    <<"M", "o", "n", "d", "a", "y">>,
    <<"T", "u", "e", "s", "d", "a", "y">>,
    <<"W", "e", "d", "n", "e", "s", "d", "a", "y">>,
    <<"T", "h", "u", "r", "s", "d", "a", "y">>,
    <<"F", "r", "i", "d", "a", "y">>,
    <<"S", "a", "t", "u", "r", "d", "a", "y">>>>

Drop(s, n) == SubSeq(s, n + 1, Len(s))

\* F applied to the value of v, which is worked out once
Apply(F(_), v) == CHOOSE r \in {F(x) : x \in {v}} : TRUE

\* lookup: the index of the first name of tab that val begins with, letters
\* compared without regard to case; 0 when there is none
lookup(tab, val) ==
    LET hits == {i \in 1..Len(tab) : Len(val) >= Len(tab[i])
                                     /\ ToLower(SubSeq(val, 1, Len(tab[i]))) = ToLower(tab[i])}
    IN IF hits = {} THEN 0 ELSE CHOOSE i \in hits : \A j \in hits : i <= j

startsWithLowerCase(s) == s # <<>> /\ \E i \in 1..26 : Lower[i] = s[1]

\* the number of characters at the head of s that belong to S
RECURSIVE RunLen(_, _)
RunLen(s, S) == IF s # <<>> /\ s[1] \in S THEN 1 + RunLen(Tail(s), S) ELSE 0

Std(name, n) == [std |-> name, len |-> n]

\* nextStdChunk at the head of layout l: the layout element that begins there
\* and its length, or length 0 when the first character stands for itself
\* (the day of the year and the offsets with seconds are left out)
StdAt(l) ==
    LET is(p) == HasPrefix(l, p)
        c == l[1]
    IN IF is(<<"J", "a", "n", "u", "a", "r", "y">>) THEN Std("stdLongMonth", 7)
       ELSE IF is(<<"J", "a", "n">>) /\ ~startsWithLowerCase(Drop(l, 3)) THEN Std("stdMonth", 3)
       ELSE IF is(<<"M", "o", "n", "d", "a", "y">>) THEN Std("stdLongWeekDay", 6)
       ELSE IF is(<<"M", "o", "n">>) /\ ~startsWithLowerCase(Drop(l, 3)) THEN Std("stdWeekDay", 3)
       ELSE IF is(<<"M", "S", "T">>) THEN Std("stdTZ", 3)
       ELSE IF is(<<"0", "1">>) THEN Std("stdZeroMonth", 2)
       ELSE IF is(<<"0", "2">>) THEN Std("stdZeroDay", 2)
       ELSE IF is(<<"0", "3">>) THEN Std("stdZeroHour12", 2)
       ELSE IF is(<<"0", "4">>) THEN Std("stdZeroMinute", 2)
       ELSE IF is(<<"0", "5">>) THEN Std("stdZeroSecond", 2)
       ELSE IF is(<<"0", "6">>) THEN Std("stdYear", 2)
       ELSE IF is(<<"1", "5">>) THEN Std("stdHour", 2)
       ELSE IF c = "1" THEN Std("stdNumMonth", 1)
       ELSE IF is(<<"2", "0", "0", "6">>) THEN Std("stdLongYear", 4)
       ELSE IF c = "2" THEN Std("stdDay", 1)
       ELSE IF is(<<"_", "2">>) /\ ~is(<<"_", "2", "0", "0", "6">>) THEN Std("stdUnderDay", 2)
       ELSE IF c = "3" THEN Std("stdHour12", 1)
       ELSE IF c = "4" THEN Std("stdMinute", 1)
       ELSE IF c = "5" THEN Std("stdSecond", 1)
       ELSE IF is(<<"P", "M">>) THEN Std("stdPM", 2)
       ELSE IF is(<<"-", "0", "7", "0", "0">>) THEN Std("stdNumTZ", 5)
       ELSE IF is(<<"-", "0", "7", ":", "0", "0">>) THEN Std("stdNumColonTZ", 6)
       ELSE IF is(<<"-", "0", "7">>) THEN Std("stdNumShortTZ", 3)
       ELSE IF is(<<"Z", "0", "7", "0", "0">>) THEN Std("stdISO8601TZ", 5)
       ELSE IF is(<<"Z", "0", "7", ":", "0", "0">>) THEN Std("stdISO8601ColonTZ", 6)
       ELSE IF is(<<"Z", "0", "7">>) THEN Std("stdISO8601ShortTZ", 3)
       ELSE IF c \in {".", ","} /\ Len(l) >= 2 /\ l[2] \in {"0", "9"}
               /\ (Len(l) = 1 + RunLen(Tail(l), {l[2]}) \/ l[2 + RunLen(Tail(l), {l[2]})] \notin Digits)
       THEN Std(IF l[2] = "0" THEN "stdFracSecond0" ELSE "stdFracSecond9", 1 + RunLen(Tail(l), {l[2]}))
       ELSE Std("", 0)

\* the first layout element of l, "" when l has none
RECURSIVE FirstStd(_)
FirstStd(l) ==
    IF l = <<>> THEN "" ELSE IF StdAt(l).len > 0 THEN StdAt(l).std ELSE FirstStd(Tail(l))

NoNum == [ok |-> FALSE, n |-> 0, rest |-> <<>>]

\* getnum: one or two digits, exactly two when fixed
getnum(s, fixed) ==
    IF s = <<>> \/ s[1] \notin Digits THEN NoNum
    ELSE IF Len(s) >= 2 /\ s[2] \in Digits
    THEN [ok |-> TRUE, n |-> DigitVal(s[1]) * 10 + DigitVal(s[2]), rest |-> Drop(s, 2)]
    ELSE IF fixed THEN NoNum
    ELSE [ok |-> TRUE, n |-> DigitVal(s[1]), rest |-> Tail(s)]

\* what Parse has read so far: the fields of the date and of the time of day,
\* AM or PM, and the zone: UTC, a numeric offset in seconds, an abbreviation
NoFields == [ok |-> TRUE, year |-> 0, month |-> 0 - 1, day |-> 0 - 1, hour |-> 0, min |-> 0, sec |-> 0,
             pm |-> "", utc |-> FALSE, hasOff |-> FALSE, off |-> 0, zoneName |-> <<>>]

Took(f, rest) == [f |-> f, rest |-> rest]
Missed == [f |-> [NoFields EXCEPT !.ok = FALSE], rest |-> <<>>]

\* a number read by getnum into one field, when it lies in lo..hi
NumField(r, lo, hi, f, name) ==
    IF ~r.ok \/ r.n < lo \/ r.n > hi THEN Missed
    ELSE Took([f EXCEPT ![name] = r.n], r.rest)

\* parseTimeZone: an abbreviation of three upper-case letters, or of four or
\* five that end in T; 0 when the text does not begin with one
parseTimeZone(s) ==
    LET n == RunLen(s, UpperChars)
    IN IF n = 3 THEN 3 ELSE IF n \in {4, 5} /\ s[n] = "T" THEN n ELSE 0

\* a numeric offset: the sign, two digits of hours and, as the element has
\* them, the minutes after a colon or without one
Offset(std, s, f) ==
    LET colon == std \in {"stdNumColonTZ", "stdISO8601ColonTZ"}
        short == std \in {"stdNumShortTZ", "stdISO8601ShortTZ"}
        need  == IF colon THEN 6 ELSE IF short THEN 3 ELSE 5
    IN IF Len(s) < need \/ (colon /\ s[4] # ":") THEN Missed
       ELSE LET hr == getnum(SubSeq(s, 2, 3), TRUE)
                mm == IF short THEN [ok |-> TRUE, n |-> 0, rest |-> <<>>]
                      ELSE getnum(SubSeq(s, need - 1, need), TRUE)
            IN IF ~hr.ok \/ ~mm.ok \/ hr.n > 24 \/ mm.n > 60 \/ s[1] \notin {"+", "-"} THEN Missed
               ELSE LET zoneOffset == (hr.n * 60 + mm.n) * 60
                    IN Took([f EXCEPT !.hasOff = TRUE,
                                      !.off = IF s[1] = "-" THEN 0 - zoneOffset ELSE zoneOffset],
                            Drop(s, need))

\* the digits of a fraction of a second that follow the seconds in the text
\* although the layout has none are read over
AfterSeconds(t, layout) ==
    IF ~t.f.ok THEN t
    ELSE IF Len(t.rest) >= 2 /\ t.rest[1] \in {".", ","} /\ t.rest[2] \in Digits
            /\ FirstStd(layout) \notin {"stdFracSecond0", "stdFracSecond9"}
    THEN Took(t.f, Drop(t.rest, 1 + RunLen(Tail(t.rest), Digits)))
    ELSE t

\* one layout element read from the text s; layout is what follows the element
TakeField(std, n, s, f, layout) ==
    IF std = "stdYear"
    THEN LET r == IF Len(s) >= 2 THEN getnum(SubSeq(s, 1, 2), TRUE) ELSE NoNum
         IN IF ~r.ok THEN Missed
            ELSE Took([f EXCEPT !.year = IF r.n >= 69 THEN r.n + 1900 ELSE r.n + 2000], Drop(s, 2))
    ELSE IF std = "stdLongYear"
    THEN IF Len(s) < 4 \/ ~AllDigits(SubSeq(s, 1, 4)) THEN Missed
         ELSE Took([f EXCEPT !.year = DigitsValue(SubSeq(s, 1, 4), 0)], Drop(s, 4))
    ELSE IF std \in {"stdMonth", "stdLongMonth"}
    THEN LET tab == IF std = "stdMonth" THEN shortMonthNames ELSE longMonthNames
             i == lookup(tab, s)
         IN IF i = 0 THEN Missed ELSE Took([f EXCEPT !.month = i], Drop(s, Len(tab[i])))
    ELSE IF std \in {"stdNumMonth", "stdZeroMonth"}
    THEN NumField(getnum(s, std = "stdZeroMonth"), 1, 12, f, "month")
    ELSE IF std \in {"stdWeekDay", "stdLongWeekDay"}
    THEN LET tab == IF std = "stdWeekDay" THEN shortDayNames ELSE longDayNames
             i == lookup(tab, s)
         IN IF i = 0 THEN Missed ELSE Took(f, Drop(s, Len(tab[i])))
    ELSE IF std \in {"stdDay", "stdUnderDay", "stdZeroDay"}
    THEN LET v == IF std = "stdUnderDay" /\ s # <<>> /\ s[1] = " " THEN Tail(s) ELSE s
         IN NumField(getnum(v, std = "stdZeroDay"), 0, 99, f, "day")
    ELSE IF std = "stdHour" THEN NumField(getnum(s, FALSE), 0, 23, f, "hour")
    ELSE IF std \in {"stdHour12", "stdZeroHour12"}
    THEN NumField(getnum(s, std = "stdZeroHour12"), 0, 12, f, "hour")
    ELSE IF std \in {"stdMinute", "stdZeroMinute"}
    THEN NumField(getnum(s, std = "stdZeroMinute"), 0, 59, f, "min")
    ELSE IF std \in {"stdSecond", "stdZeroSecond"}
    THEN AfterSeconds(NumField(getnum(s, std = "stdZeroSecond"), 0, 59, f, "sec"), layout)
    ELSE IF std = "stdPM"
    THEN IF HasPrefix(s, <<"P", "M">>) THEN Took([f EXCEPT !.pm = "PM"], Drop(s, 2))
         ELSE IF HasPrefix(s, <<"A", "M">>) THEN Took([f EXCEPT !.pm = "AM"], Drop(s, 2))
         ELSE Missed
    ELSE IF std = "stdTZ"
    THEN IF HasPrefix(s, <<"U", "T", "C">>) THEN Took([f EXCEPT !.utc = TRUE], Drop(s, 3))
         ELSE IF parseTimeZone(s) = 0 THEN Missed
         ELSE Took([f EXCEPT !.zoneName = SubSeq(s, 1, parseTimeZone(s))], Drop(s, parseTimeZone(s)))
    ELSE IF std \in {"stdISO8601TZ", "stdISO8601ColonTZ", "stdISO8601ShortTZ"} /\ s # <<>> /\ s[1] = "Z"
    THEN Took([f EXCEPT !.utc = TRUE], Tail(s))
    ELSE IF std \in {"stdISO8601TZ", "stdISO8601ColonTZ", "stdISO8601ShortTZ",
                     "stdNumTZ", "stdNumColonTZ", "stdNumShortTZ"}
    THEN Offset(std, s, f)
    ELSE IF std = "stdFracSecond0"
    THEN IF Len(s) < n \/ s[1] \notin {".", ","} \/ ~AllDigits(SubSeq(s, 2, n)) THEN Missed
         ELSE Took(f, Drop(s, n))
    ELSE \* stdFracSecond9: the fraction may be missing
         IF Len(s) < 2 \/ s[1] \notin {".", ","} \/ s[2] \notin Digits THEN Took(f, s)
         ELSE Took(f, Drop(s, 1 + RunLen(Tail(s), Digits)))

\* one round of the loop of Parse on [layout, value, f], the layout that is
\* left, the text that is left and the fields read: a character that is no
\* layout element has to stand in the text, an element reads its field; after
\* an error nothing is left
ParseStep(st) ==
    LET s == StdAt(st.layout)
        t == TakeField(s.std, s.len, st.value, st.f, Drop(st.layout, s.len))
    IN IF s.len = 0
       THEN IF st.value # <<>> /\ st.value[1] = st.layout[1]
            THEN [layout |-> Tail(st.layout), value |-> Tail(st.value), f |-> st.f]
            ELSE [layout |-> <<>>, value |-> <<>>, f |-> Missed.f]
       ELSE [layout |-> IF t.f.ok THEN Drop(st.layout, s.len) ELSE <<>>, value |-> t.rest, f |-> t.f]

\* the loop of Parse; text left over when the layout is used up is an error
RECURSIVE ParseLoop(_)
ParseLoop(st) ==
    IF st.layout = <<>> THEN (IF st.value = <<>> THEN st.f ELSE Missed.f)
    ELSE Apply(ParseLoop, ParseStep(st))

isLeap(year) == year % 4 = 0 /\ (year % 100 # 0 \/ year % 400 = 0)

daysBefore == <<0, 31, 59, 90, 120, 151, 181, 212, 243, 273, 304, 334>>

daysIn(m, year) ==
    IF m = 2 /\ isLeap(year) THEN 29
    ELSE IF m = 12 THEN 31 ELSE daysBefore[m + 1] - daysBefore[m]

\* the days from January 1 of year 1 to the given day
daysSinceEpoch(year, m, d) ==
    LET y == year - 1
    IN 365 * y + (y \div 4) - (y \div 100) + (y \div 400)
       + daysBefore[m] + (IF m > 2 /\ isLeap(year) THEN 1 ELSE 0) + d - 1

tUint64 == TScalar("uint64")
tInt64 == TScalar("int64")

\* the instant that lies secs seconds after the beginning of day days
Instant(days, secs, loc) ==
    Val(tTime, <<Val(tUint64, secs % 86400), Val(tInt64, days + (secs \div 86400)), loc>>)

\* time.FixedZone
FixedZone(name) == Ref(Val(tLocation, <<Str(name), Ref(Val(tZone, <<Str(name)>>))>>))

\* time.Local: the machine of the model's runs keeps UTC as its local zone,
\* so the local offset is 0 seconds
sLocal == <<"L", "o", "c", "a", "l">>
sUTC == <<"U", "T", "C">>
Local == Ref(Val(tLocation, <<Str(sLocal), Ref(Val(tZone, <<Str(sUTC)>>))>>))

\* time.Date for the fields read and the zone they name: UTC when the text
\* names none; a numeric offset gives Local when it is the local one and a
\* fixed zone otherwise; an unknown abbreviation gives a fixed zone at offset 0
Date(f, month, day, hour) ==
    LET days == daysSinceEpoch(f.year, month, day)
        secs == hour * 3600 + f.min * 60 + f.sec
    IN IF f.utc THEN Instant(days, secs, Nil(tLocation))
       ELSE IF f.hasOff
       THEN Instant(days, secs - f.off, IF f.off = 0 /\ f.zoneName \in {<<>>, sUTC}
                                        THEN Local ELSE FixedZone(f.zoneName))
       ELSE IF f.zoneName # <<>> THEN Instant(days, secs, FixedZone(f.zoneName))
       ELSE Instant(days, secs, Nil(tLocation))

ZeroTime == Instant(0, 0, Nil(tLocation))

\* the end of Parse: the hour of the afternoon, the month and day a layout
\* without them stands for, the day checked against its month
ParseEnd(f) ==
    IF ~f.ok THEN [ok |-> FALSE, t |-> ZeroTime]
    ELSE LET hour  == IF f.pm = "PM" /\ f.hour < 12 THEN f.hour + 12
                      ELSE IF f.pm = "AM" /\ f.hour = 12 THEN 0 ELSE f.hour
             month == IF f.month < 0 THEN 1 ELSE f.month
             day   == IF f.day < 0 THEN 1 ELSE f.day
         IN IF day < 1 \/ day > daysIn(month, f.year) THEN [ok |-> FALSE, t |-> ZeroTime]
            ELSE [ok |-> TRUE, t |-> Date(f, month, day, hour)]

\* time.Parse(layout, value): [ok, t]
Parse(layout, value) ==
    Apply(ParseEnd, ParseLoop([layout |-> layout, value |-> value, f |-> NoFields]))

\* time.Now(): the reading of the clock in the model's runs, in the local zone
Now == Instant(daysSinceEpoch(2026, 11, 2), 12 * 3600, Local)

\* the units of time.ParseDuration and what they are worth; the durations of
\* the model are kept in whole milliseconds
unitMap(u) ==
    IF u = <<"n", "s">> THEN [ok |-> TRUE, mul |-> 1, div |-> 1000000]
    ELSE IF u = <<"u", "s">> THEN [ok |-> TRUE, mul |-> 1, div |-> 1000]
    ELSE IF u = <<"m", "s">> THEN [ok |-> TRUE, mul |-> 1, div |-> 1]
    ELSE IF u = <<"s">> THEN [ok |-> TRUE, mul |-> 1000, div |-> 1]
    ELSE IF u = <<"m">> THEN [ok |-> TRUE, mul |-> 60000, div |-> 1]
    ELSE IF u = <<"h">> THEN [ok |-> TRUE, mul |-> 3600000, div |-> 1]
    ELSE [ok |-> FALSE, mul |-> 0, div |-> 1]

\* the terms of a duration: digits and a unit, one after the other (fractions
\* are left out)
RECURSIVE DurationTerms(_, _)
DurationTerms(s, acc) ==
    IF s = <<>> THEN [ok |-> TRUE, v |-> acc]
    ELSE LET nd == RunLen(s, Digits)
             nu == RunLen(Drop(s, nd), LowerChars)
             u  == unitMap(SubSeq(s, nd + 1, nd + nu))
         IN IF nd = 0 \/ ~u.ok THEN [ok |-> FALSE, v |-> 0]
            ELSE DurationTerms(Drop(s, nd + nu), acc + (DigitsValue(SubSeq(s, 1, nd), 0) * u.mul) \div u.div)

\* time.ParseDuration: [ok, v]
ParseDuration(s) ==
    LET neg  == s # <<>> /\ s[1] = "-"
        body == IF s # <<>> /\ s[1] \in {"+", "-"} THEN Tail(s) ELSE s
    IN IF body = <<"0">> THEN [ok |-> TRUE, v |-> 0]
       ELSE IF body = <<>> THEN [ok |-> FALSE, v |-> 0]
       ELSE LET r == DurationTerms(body, 0)
            IN IF r.ok /\ neg THEN [ok |-> TRUE, v |-> 0 - r.v] ELSE r

-----------------------------------------------------------------------------
(* parseComplex *)

\* strings.ReplaceAll(s, old, "") for a one-character old
RemoveAll(s, c) == SelectSeq(s, LAMBDA x : x # c)

\* strings.Split(s, sep) for a one-character sep
RECURSIVE Split(_, _)
Split(s, c) ==
    LET n == RunLen(s, {x \in {s[i] : i \in 1..Len(s)} : x # c})
    IN IF n = Len(s) THEN <<s>> ELSE <<SubSeq(s, 1, n)>> \o Split(Drop(s, n + 1), c)

\* strings.TrimSuffix for a one-character suffix
TrimSuffix(s, c) == IF s # <<>> /\ s[Len(s)] = c THEN SubSeq(s, 1, Len(s) - 1) ELSE s

Complex(re, im) == [re |-> re, im |-> im]

NoComplex == [ok |-> FALSE, v |-> Complex(NormalFloat(0, 0), NormalFloat(0, 0))]

\* parseComplex: [ok, v]
parseComplex(str) ==
    LET s == RemoveAll(str, " ")
        parts == Split(s, "+")
    IN IF s = <<>> THEN NoComplex
       ELSE IF Len(parts) # 2 THEN NoComplex
       ELSE LET realPart == ParseFloat(parts[1], 64)
                imagPart == ParseFloat(TrimSuffix(parts[2], "i"), 64)
            IN IF ~realPart.ok THEN NoComplex
               ELSE IF ~imagPart.ok THEN NoComplex
               ELSE [ok |-> TRUE, v |-> Complex(realPart.v, imagPart.v)]


-----------------------------------------------------------------------------
(* parseDefaultValue: [ok, val, err] *)

RECURSIVE StrOf(_)
StrOf(s) == IF s = <<>> THEN "" ELSE s[1] \o StrOf(Tail(s))

ParseOk(n) == [ok |-> TRUE, val |-> n, err |-> "nil"]
ParseFail(e) == [ok |-> FALSE, val |-> Val(TScalar("invalid"), 0), err |-> e]

\* the switch on the lower-cased layout tag, label by label as the code writes
\* them: a tag that meets a label is replaced by that layout of package time,
\* any other tag is the layout itself
ResolveLayout(layoutTag) ==
    LET l == ToLower(layoutTag)
    IN IF l = <<"l", "a", "y", "o", "u", "t">> THEN Layout
       ELSE IF l = <<"a", "n", "s", "i", "c">> THEN ANSIC
       ELSE IF l = <<"u", "n", "i", "x", "d", "a", "t", "e">> THEN UnixDate
       ELSE IF l = <<"r", "u", "b", "y", "d", "a", "t", "e">> THEN RubyDate
       ELSE IF l = <<"r", "f", "c", "8", "2", "2">> THEN RFC822
       ELSE IF l = <<"r", "f", "c", "8", "5", "0">> THEN RFC850
       ELSE IF l = <<"r", "f", "c", "1", "1", "2", "3">> THEN RFC1123
       ELSE IF l = <<"R", "F", "C", "1", "1", "2", "3", "Z">> THEN RFC1123Z
       ELSE IF l \in {<<"r", "f", "c", "3", "3", "3", "9">>, <<>>} THEN RFC3339
       ELSE IF l = <<"r", "f", "c", "3", "3", "3", "9", "N", "a", "n", "o">> THEN RFC3339Nano
       ELSE IF l = <<"k", "i", "t", "c", "h", "e", "n">> THEN Kitchen
       ELSE IF l = <<"s", "t", "a", "m", "p">> THEN Stamp
       ELSE IF l = <<"s", "t", "a", "m", "p", "m", "i", "l", "l", "i">> THEN StampMilli
       ELSE IF l = <<"s", "t", "a", "m", "p", "m", "i", "c", "r", "o">> THEN StampMicro
       ELSE IF l = <<"s", "t", "a", "m", "p", "n", "a", "n", "o">> THEN StampNano
       ELSE IF l = <<"d", "a", "t", "e", "t", "i", "m", "e">> THEN DateTime
       ELSE IF l = <<"d", "a", "t", "e", "o", "n", "l", "y">> THEN DateOnly
       ELSE IF l = <<"t", "i", "m", "e", "o", "n", "l", "y">> THEN TimeOnly
       ELSE layoutTag

RECURSIVE parseDefaultValue(_, _, _)
parseDefaultValue(defaultTag, layoutTag, fieldType) ==
    LET kind == fieldType.kind
    IN IF kind = "ptr"
       THEN LET r == parseDefaultValue(defaultTag, layoutTag, fieldType.elem)
            IN IF ~r.ok THEN r ELSE ParseOk(Val(fieldType, <<r.val>>))
       ELSE IF kind = "string" THEN ParseOk(Val(TScalar("string"), defaultTag))
       ELSE IF kind \in IntKinds /\ fieldType.name = "time.Duration"
       THEN LET r == ParseDuration(defaultTag)
            IN IF r.ok THEN ParseOk(Val(TDuration, r.v)) ELSE ParseFail("invalid syntax")
       ELSE IF kind \in IntKinds
       THEN LET r == ParseInt(defaultTag, Bits(kind))
            IN IF r.ok THEN ParseOk(Val(fieldType, r.v)) ELSE ParseFail("invalid syntax")
       ELSE IF kind \in UintKinds
       THEN LET r == ParseUint(defaultTag, Bits(kind))
            IN IF r.ok THEN ParseOk(Val(fieldType, r.v)) ELSE ParseFail("invalid syntax")
       ELSE IF kind \in FloatKinds
       THEN LET r == ParseFloat(defaultTag, Bits(kind))
            IN IF r.ok THEN ParseOk(Val(fieldType, r.v)) ELSE ParseFail("invalid syntax")
       ELSE IF kind \in ComplexKinds
       THEN LET r == parseComplex(defaultTag)
            IN IF r.ok THEN ParseOk(Val(fieldType, r.v)) ELSE ParseFail("invalid syntax")
       ELSE IF kind = "bool"
       THEN LET r == ParseBool(defaultTag)
            IN IF r.ok THEN ParseOk(Val(TScalar("bool"), r.v)) ELSE ParseFail("invalid syntax")
       ELSE IF kind = "uintptr"
       THEN LET r == ParseUint(defaultTag, 64)
            IN IF r.ok THEN ParseOk(Val(TScalar("uint64"), r.v)) ELSE ParseFail("invalid syntax")
       ELSE IF kind = "struct" /\ fieldType.name = "time.Time"
       THEN IF ToLower(defaultTag) = <<"n", "o", "w">> THEN ParseOk(Now)
            ELSE LET r == Parse(ResolveLayout(layoutTag), defaultTag)
                 IN IF r.ok THEN ParseOk(r.t) ELSE ParseFail("invalid syntax")
       ELSE ParseFail("unsupported field type: " \o kind)

-----------------------------------------------------------------------------
(* The defaulting walker.  Every function takes the value its pointer argument
   points to and returns [n |-> that value after the call, err |-> the error
   returned ("nil" for none), panic |-> whether the call panicked]. *)

Done(n, e) == [n |-> n, err |-> e, panic |-> FALSE]
Panicked(n) == [n |-> n, err |-> "nil", panic |-> TRUE]

\* the innermost value behind a chain of pointers (a nil pointer ends the chain)
RECURSIVE Innermost(_)
Innermost(n) == IF n.t.kind = "ptr" /\ n.v # <<>> THEN Innermost(n.v[1]) ELSE n

\* n with the innermost value replaced
RECURSIVE Rewrap(_, _)
Rewrap(n, inner) ==
    IF n.t.kind = "ptr" /\ n.v # <<>> THEN [n EXCEPT !.v = <<Rewrap(n.v[1], inner)>>] ELSE inner

\* the type behind a chain of pointer types
RECURSIVE DerefType(_)
DerefType(t) == IF t.kind = "ptr" THEN DerefType(t.elem) ELSE t

\* setUnexportedField: Value.Set panics unless the value has the field's type
CanSet(fieldValue, value) == value.t = fieldValue.t

\* getPtrInterface dereferences one pointer and takes the type of the result:
\* on a nil pointer that is Type() of the zero Value, which panics
GetPtrPanics(fieldValue) == IsNilPtr(fieldValue)

ParseError(name, e) == "failed to parse default tag for field " \o StrOf(name) \o ": " \o e

RECURSIVE setDefaultsStruct(_, _)
RECURSIVE setDefaultsSlice(_, _)
RECURSIVE setDefaultsMap(_, _)
RECURSIVE StructLoop(_, _, _, _)
RECURSIVE SliceLoop(_, _, _)
RECURSIVE MapLoop(_, _, _)

\* the recursive call on a field, element or copied-out map value: the value
\* is handed over through getPtrInterface
Recurse(fv, ord) ==
    IF GetPtrPanics(fv) THEN Panicked(fv)
    ELSE LET k == DerefType(fv.t).kind
         IN IF k = "struct" THEN setDefaultsStruct(fv, ord)
            ELSE IF k \in {"slice", "array"} THEN setDefaultsSlice(fv, ord)
            ELSE setDefaultsMap(fv, ord)

\* what the pointer handed to a function points to once the function has
\* worked on the value behind its pointers
Inside(n, r) == [r EXCEPT !.n = Rewrap(n, r.n)]

\* a scalar field with a descriptor, parsed to r: a failure returns at once,
\* wrapped with the field's name; otherwise the field is overwritten
ScalarField(s, i, r, err, ord) ==
    IF ~r.ok THEN Done(s, ParseError(s.t.fields[i].name, r.err))
    ELSE IF ~CanSet(s.v[i], r.val) THEN Panicked(s)
    ELSE StructLoop([s EXCEPT !.v[i] = r.val], i + 1, err, ord)

\* a composite field after the recursive call returned r: the error is assigned
\* to the named result and the loop goes on
CompositeField(s, i, r, ord) ==
    IF r.panic THEN Panicked([s EXCEPT !.v[i] = r.n])
    ELSE StructLoop([s EXCEPT !.v[i] = r.n], i + 1, r.err, ord)

\* the loop over the fields that parses the descriptor of every scalar field,
\* the empty one of a field without descriptor too
StructLoop_UntaggedToo(s, i, err, ord) ==
    IF i > Len(s.t.fields) THEN Done(s, err)
    ELSE
    LET field == s.t.fields[i]
        fieldValue == s.v[i]
        fieldValueType == DerefType(fieldValue.t)
        k == fieldValueType.kind
        isTime == fieldValue.t.kind = "struct" /\ fieldValue.t.name = "time.Time"
    IN IF (k = "struct" /\ isTime /\ field.tag # <<>>)
          \/ k \notin {"invalid", "struct", "slice", "array", "map"}
       THEN Apply(LAMBDA r : ScalarField(s, i, r, err, ord),
                  parseDefaultValue(field.tag, field.layout, fieldValueType))
       ELSE IF k \in {"struct", "slice", "array", "map"}
       THEN CompositeField(s, i, Recurse(fieldValue, ord), ord)
       ELSE StructLoop(s, i + 1, err, ord)

\* the loop over the fields of struct s, from field i on; err is the function's
\* named result, which the recursive calls assign and nothing checks
StructLoop(s, i, err, ord) ==
    IF i > Len(s.t.fields) THEN Done(s, err)
    ELSE
    LET field == s.t.fields[i]
        fieldValue == s.v[i]
        fieldValueType == DerefType(fieldValue.t)
        k == fieldValueType.kind
        isTime == fieldValue.t.kind = "struct" /\ fieldValue.t.name = "time.Time"
    IN IF (k = "struct" /\ isTime /\ field.tag # <<>>)
          \/ (k \notin {"invalid", "struct", "slice", "array", "map"} /\ field.tag # <<>>)
       THEN Apply(LAMBDA r : ScalarField(s, i, r, err, ord),
                  parseDefaultValue(field.tag, field.layout, fieldValueType))
       ELSE IF k \in {"struct", "slice", "array", "map"}
       THEN CompositeField(s, i, Recurse(fieldValue, ord), ord)
       ELSE StructLoop(s, i + 1, err, ord)

setDefaultsStruct(n, ord) ==
    IF Innermost(n).t.kind # "struct" THEN Done(n, "nil")
    ELSE Inside(n, StructLoop(Innermost(n), 1, "nil", ord))

\* an element after the recursive call returned r: an error ends the loop
SliceElem(s, i, r, ord) ==
    IF r.panic THEN Panicked([s EXCEPT !.v[i] = r.n])
    ELSE IF r.err # "nil" THEN Done([s EXCEPT !.v[i] = r.n], r.err)
    ELSE SliceLoop([s EXCEPT !.v[i] = r.n], i + 1, ord)

\* the loop over the elements of slice s, from element i (1-based) on
SliceLoop(s, i, ord) ==
    IF i > Len(s.v) THEN Done(s, "nil")
    ELSE IF DerefType(s.v[i].t).kind \in {"struct", "slice", "array", "map"}
    THEN SliceElem(s, i, Recurse(s.v[i], ord), ord)
    ELSE SliceLoop(s, i + 1, ord)

setDefaultsSlice(n, ord) ==
    IF Innermost(n).t.kind \notin {"slice", "array"} THEN Done(n, "nil")
    ELSE IF Innermost(n).t = TBytes THEN Done(n, "nil")
    ELSE Inside(n, SliceLoop(Innermost(n), 1, ord))

\* what storage that was copied by value looks like once the filled copy is
\* thrown away: the copy's own scalars are lost, while whatever the copy only
\* refers to (pointer targets, slice elements, maps) was written in place
RECURSIVE KeepShared(_, _)
KeepShared(old, new) ==
    IF old.t.kind = "struct"
    THEN [old EXCEPT !.v = [i \in 1..Len(old.v) |-> KeepShared(old.v[i], new.v[i])]]
    ELSE IF old.t.kind \in {"ptr", "slice", "map"} THEN new
    ELSE old

\* the map with the copy of the value under key thrown away
Dropped(m, key, r) == [m EXCEPT !.v[key] = KeepShared(m.v[key], r.n)]

\* a value copied out of the map, filled and never stored back
MapValue_NoStore(m, keys, r, ord) ==
    IF r.panic THEN Panicked(Dropped(m, keys[1], r))
    ELSE IF r.err # "nil" THEN Done(Dropped(m, keys[1], r), r.err)
    ELSE MapLoop(Dropped(m, keys[1], r), Tail(keys), ord)

\* a value copied out of the map, filled and stored back whether or not
\* filling it failed
MapValue_StoresFailed(m, keys, r, ord) ==
    IF r.panic THEN Panicked(Dropped(m, keys[1], r))
    ELSE IF r.err # "nil" THEN Done([m EXCEPT !.v[keys[1]] = r.n], r.err)
    ELSE MapLoop([m EXCEPT !.v[keys[1]] = r.n], Tail(keys), ord)

\* a value copied out of the map after the recursive call on the copy returned
\* r: an error returns before the copy is stored back under its key
MapValue(m, keys, r, ord) ==
    IF r.panic THEN Panicked(Dropped(m, keys[1], r))
    ELSE IF r.err # "nil" THEN Done(Dropped(m, keys[1], r), r.err)
    ELSE MapLoop([m EXCEPT !.v[keys[1]] = r.n], Tail(keys), ord)

\* the loop over the keys of map m; keys is what is left of MapKeys()
MapLoop(m, keys, ord) ==
    IF keys = <<>> THEN Done(m, "nil")
    ELSE IF DerefType(m.v[keys[1]].t).kind \in {"struct", "slice", "array", "map"}
    THEN MapValue(m, keys, Recurse(m.v[keys[1]], ord), ord)
    ELSE MapLoop(m, Tail(keys), ord)

\* Value.MapKeys returns the keys in unspecified order: ord lists the keys of
\* the model in the order this call iterates them
MapKeys(m, ord) == SelectSeq(ord, LAMBDA key : key \in DOMAIN m.v)

setDefaultsMap(n, ord) ==
    IF Innermost(n).t.kind # "map" THEN Done(n, "nil")
    ELSE Inside(n, MapLoop(Innermost(n), MapKeys(Innermost(n), ord), ord))

\* SetDefaults(ptr): root is what ptr points to
SetDefaults(root, ord) ==
    LET k == DerefType(root.t).kind
    IN IF k = "struct" THEN setDefaultsStruct(root, ord)
       ELSE IF k \in {"slice", "array"} THEN setDefaultsSlice(root, ord)
       ELSE IF k = "map" THEN setDefaultsMap(root, ord)
       ELSE Done(root, "nil")

-----------------------------------------------------------------------------
(* Names used by the graphs of the model *)

sNumber == <<"n", "u", "m", "b", "e", "r">>
sPassport == <<"p", "a", "s", "s", "p", "o", "r", "t">>
sAddress == <<"a", "d", "d", "r", "e", "s", "s">>
sCity == <<"c", "i", "t", "y">>
sZIP == <<"Z", "I", "P">>
sFloor == <<"f", "l", "o", "o", "r">>
sLevel == <<"L", "e", "v", "e", "l">>
sLastName == <<"l", "a", "s", "t", "N", "a", "m", "e">>
sList == <<"l", "i", "s", "t">>
sHobbys == <<"h", "o", "b", "b", "y", "s">>
sFingerprint == <<"f", "i", "n", "g", "e", "r", "p", "r", "i", "n", "t">>
sBirthDate == <<"b", "i", "r", "t", "h", "D", "a", "t", "e">>
sDur == <<"d", "u", "r">>
sJunk == <<"n", "i", "x">>
sByInt == <<"b", "y", "I", "n", "t">>
sByUint == <<"b", "y", "U", "i", "n", "t">>
sByFlag == <<"b", "y", "F", "l", "a", "g">>
sByRate == <<"b", "y", "R", "a", "t", "e">>
sByPair == <<"b", "y", "P", "a", "i", "r">>
sByColor == <<"b", "y", "C", "o", "l", "o", "r">>
sNext == <<"n", "e", "x", "t">>
sStringSlice == <<"s", "t", "r", "i", "n", "g", "S", "l", "i", "c", "e">>
sStringMapOfInt == <<"s", "t", "r", "i", "n", "g", "M", "a", "p", "O", "f", "I", "n", "t">>
sStringVar1 == <<"s", "t", "r", "i", "n", "g", "V", "a", "r", "1">>
sStringVar2 == <<"s", "t", "r", "i", "n", "g", "V", "a", "r", "2">>


-----------------------------------------------------------------------------
(* The graphs of the path accessor's runs, after the README's example *)

tInt8 == TScalar("int8")

tPassport == TStruct("passport", <<Fld(sNumber, tString, <<>>)>>)

tAddress == TStruct("address", <<Fld(sCity, tString, <<>>),
                                 Fld(sZIP, tString, <<>>),
                                 Fld(sFloor, tInt8, <<>>)>>)

tPerson == TStruct("person", <<Emb(sPassport, tPassport),
                               Fld(sLastName, TPtr(tString), <<>>),
                               Fld(sAddress, tAddress, <<>>),
                               Fld(sLevel, tInt8, <<>>)>>)

tHolder == TStruct("holder", <<Fld(sList, TSlice(tAddress), <<>>),
                               Fld(sHobbys, TMap(tString, TScalar("int")), <<>>),
                               Fld(sFingerprint, TBytes, <<>>)>>)


tClock == TStruct("clock", <<Fld(sBirthDate, tTime, <<>>),
                             Fld(sDur, TDuration, <<>>)>>)


\* all sequences over S of length at most n
RECURSIVE SeqsUpTo(_, _)
SeqsUpTo(S, n) ==
    IF n = 0 THEN {<<>>}
    ELSE LET shorter == SeqsUpTo(S, n - 1)
         IN shorter \cup {Append(q, x) : q \in {r \in shorter : Len(r) = n - 1}, x \in S}

AddressValues ==
    {Val(tAddress, <<Str(c), Str(<<"1">>), Val(tInt8, f)>>) : c \in {<<>>, <<"B">>}, f \in {0, 5}}

PersonGraphs ==
    {Val(tPerson, <<Val(tPassport, <<Str(<<"K", "I">>)>>), l, a, Val(tInt8, 7)>>) :
        l \in {Nil(tString), Ref(Str(<<"R">>))}, a \in AddressValues}

ListElems == {Val(tAddress, <<Str(<<"B">>), Str(<<"1">>), Val(tInt8, 5)>>),
              Val(tAddress, <<Str(<<>>), Str(<<"2">>), Val(tInt8, 0)>>)}

HobbyKeys == {<<"k">>, <<"j">>}

HobbyMaps == {[key \in D |-> Val(TScalar("int"), IF key = <<"k">> THEN 10 ELSE 0)] : D \in SUBSET HobbyKeys}

\* the one byte slice of a holder graph has its backing array at this address
FingerprintAddr == 1

HolderGraphs ==
    {Val(tHolder, <<Val(TSlice(tAddress), l), Val(TMap(tString, TScalar("int")), m),
                    Val(TBytes, FingerprintAddr)>>) :
        l \in SeqsUpTo(ListElems, MaxSliceLen), m \in HobbyMaps}

FingerprintContents == SeqsUpTo({72}, MaxSliceLen)

LocValues == {Nil(tLocation),
              Ref(Val(tLocation, <<Str(<<"C", "E", "T">>), Ref(Val(tZone, <<Str(<<"C", "E", "T">>)>>))>>))}

ClockGraphs ==
    {Val(tClock, <<Val(tTime, <<Val(TScalar("uint64"), w), Val(TScalar("int64"), 0), l>>),
                   Val(TDuration, d)>>) :
        w \in {0, 1}, l \in LocValues, d \in {0, 155}}

\* maps keyed by each kind of key the resolver converts to, by a kind it does
\* not, and by a defined string type (type color string)
tColor == [kind |-> "string", name |-> "color"]

tKeyed == TStruct("keyed", <<Fld(sByInt, TMap(tInt8, tString), <<>>),
                             Fld(sByUint, TMap(TScalar("uint8"), tString), <<>>),
                             Fld(sByFlag, TMap(TScalar("bool"), tString), <<>>),
                             Fld(sByRate, TMap(TScalar("float64"), tString), <<>>),
                             Fld(sByPair, TMap(TScalar("complex128"), tString), <<>>),
                             Fld(sByColor, TMap(tColor, tString), <<>>)>>)

\* a map of type t holding "a" under each key of D
Keyed(t, D) == Val(t, [key \in D |-> Str(<<"a">>)])

\* the keys of a keyed graph: 1 and -1, 1, true, 1.5 and 1, 0+0i, "r"
KeyedGraphs ==
    {Val(tKeyed, <<Keyed(tKeyed.fields[1].type, IF full THEN {1, 0 - 1} ELSE {}),
                   Keyed(tKeyed.fields[2].type, IF full THEN {1} ELSE {}),
                   Keyed(tKeyed.fields[3].type, IF full THEN {TRUE} ELSE {}),
                   Keyed(tKeyed.fields[4].type,
                         IF full THEN {NormalFloat(15, 1), NormalFloat(1, 0)} ELSE {}),
                   Keyed(tKeyed.fields[5].type, IF full THEN {0} ELSE {}),
                   Keyed(tKeyed.fields[6].type, IF full THEN {<<"r">>} ELSE {})>>) :
        full \in BOOLEAN}

\* a record with an unexported and an exported field of every primitive kind:
\* fields ua, Ea of the first kind, ub, Eb of the second, ...
KindList == <<"bool", "int", "int8", "int16", "int32", "int64",
              "uint", "uint8", "uint16", "uint32", "uint64",
              "float32", "float64", "complex64", "complex128", "string">>

KindLetters == <<"a", "b", "c", "d", "e", "f", "g", "h", "i", "j", "k", "l", "m", "n", "o", "p">>

KindField(i) ==
    Fld(<<(IF i % 2 = 1 THEN "u" ELSE "E"), KindLetters[(i + 1) \div 2]>>,
        TScalar(KindList[(i + 1) \div 2]), <<>>)

tKinds == TStruct("kinds", [i \in 1..(2 * Len(KindList)) |-> KindField(i)])

KindValue(t) ==
    Val(t, IF t.kind = "bool" THEN TRUE ELSE IF t.kind = "string" THEN <<"B">> ELSE 5)

KindsGraphs == {Val(tKinds, [i \in 1..Len(tKinds.fields) |-> KindValue(tKinds.fields[i].type)])}

PathGraphs == PersonGraphs \cup HolderGraphs \cup ClockGraphs \cup KeyedGraphs \cup KindsGraphs

\* the elements tried as keys of a map that is not keyed by strings
TypedKeyTexts == {<<"1">>, <<"-", "1">>, <<"3", "0", "0">>, <<"1", ".", "5">>,
                  <<"1", ".", "5", "0">>, <<"t", "r", "u", "e">>, <<"0">>, sJunk}

\* the elements tried as keys of map n
KeyTexts(n) == IF n.t.key.kind = "string" THEN DOMAIN n.v \cup HobbyKeys ELSE TypedKeyTexts

\* an element for index i
IndexName(i) == IF i < 0 THEN <<"-", "1">> ELSE <<(<<"0", "1", "2", "3", "4", "5", "6", "7", "8", "9">>)[i + 1]>>

\* the names a path element can use at a struct: its fields and the fields
\* promoted from its embedded structs
FieldNames(t) ==
    {t.fields[i].name : i \in 1..Len(t.fields)} \cup
    UNION {{EmbeddedType(t.fields[i]).fields[j].name : j \in 1..Len(EmbeddedType(t.fields[i]).fields)} :
           i \in {j \in 1..Len(t.fields) : t.fields[j].embedded}}

\* the paths tried on a graph: every chain of elements that follows the graph,
\* and every such chain followed by one element that does not (a name in
\* another letter case, an unknown name, an index out of range, an absent key,
\* an element past a scalar or past a nil pointer)
RECURSIVE PathsFrom(_, _)
PathsFrom(node, depth) ==
    LET n == Innermost(node)
        k == n.t.kind
        below(e, child) == {<<e>> \o q : q \in PathsFrom(child, depth - 1)}
    IN IF depth = 0 THEN {<<>>}
       ELSE {<<>>} \cup
            (IF k = "struct"
             THEN UNION {below(e, FieldByName(RV(n, {}), e).n) : e \in FieldNames(n.t)}
                  \cup {<<e>> : e \in ({ToUpper(f) : f \in FieldNames(n.t)}
                                       \cup {ToLower(f) : f \in FieldNames(n.t)}
                                       \cup {sJunk}) \ FieldNames(n.t)}
             ELSE IF k = "slice"
             THEN UNION {below(IndexName(i), Index(RV(n, {}), i).n) : i \in 0..(SliceLen(n) - 1)}
                  \cup {<<IndexName(SliceLen(n))>>, <<IndexName(-1)>>, <<sJunk>>}
             ELSE IF k = "map"
             THEN UNION {IF IsValid(MapElem(RV(n, {}), e).rv)
                         THEN below(e, MapElem(RV(n, {}), e).rv.n)
                         ELSE {<<e>>} : e \in KeyTexts(n)}
             ELSE {<<sJunk>>})

\* an element as it is written in a path: quoted in brackets if it holds a dot
WriteDotted(e) ==
    IF \E i \in 1..Len(e) : e[i] = "." THEN <<"[", "\"">> \o e \o <<"\"", "]">> ELSE e

\* the elements written as one path string, separated by dots
RECURSIVE JoinDots(_)
JoinDots(es) ==
    IF es = <<>> THEN <<>>
    ELSE IF Len(es) = 1 THEN WriteDotted(es[1])
    ELSE WriteDotted(es[1]) \o <<".">> \o JoinDots(Tail(es))

\* path strings that are not a dotted chain of elements
RawPaths == {<<"[">>, <<"a", "]">>, <<"\"", "a">>, <<" ", " ">>}

PathInputs ==
    {[elems |-> es, path |-> JoinDots(es), raw |-> FALSE] : es \in PathsFrom(graph, MaxPathElems)}
    \cup {[elems |-> <<>>, path |-> r, raw |-> TRUE] : r \in RawPaths}

-----------------------------------------------------------------------------
(* The runs of the path accessor *)

NoRet == [val |-> NilIface, err |-> "nil"]
NoOp == [name |-> "init", T |-> "", path |-> <<>>, elems |-> <<>>, raw |-> FALSE]

\* what the graph holds, bytes of its byte slices included
RECURSIVE AddrsOf(_)
AddrsOf(n) ==
    IF n.t = TBytes THEN {n.v}
    ELSE IF n.t.kind \in {"struct", "ptr"} \/ (n.t.kind = "slice")
    THEN UNION {AddrsOf(n.v[i]) : i \in 1..Len(n.v)}
    ELSE IF n.t.kind = "map" THEN UNION {AddrsOf(n.v[key]) : key \in DOMAIN n.v}
    ELSE {}

GraphView == <<graph, [a \in AddrsOf(graph) |-> mem[a]]>>

InitPath ==
    /\ graph \in PathGraphs
    /\ mem \in [{FingerprintAddr} -> IF AddrsOf(graph) = {} THEN {<<>>} ELSE FingerprintContents]
    /\ ret = NoRet
    /\ pre = graph
    /\ op = NoOp

\* a run is one call on a graph, and what the caller then does with the result
CallGetPathInterface ==
    \E in \in PathInputs :
        /\ op.name = "init"
        /\ ret' = GetPathInterface(graph, in.path)
        /\ op' = [name |-> "GetPathInterface", T |-> "", path |-> in.path,
                  elems |-> in.elems, raw |-> in.raw]
        /\ UNCHANGED <<graph, mem, pre>>

CallGetPathTyped ==
    \E in \in PathInputs, T \in GetterTypes :
        /\ op.name = "init"
        /\ ret' = GetPathTyped(T, graph, in.path)
        /\ op' = [name |-> "GetPathTyped", T |-> T, path |-> in.path,
                  elems |-> in.elems, raw |-> in.raw]
        /\ UNCHANGED <<graph, mem, pre>>

\* the caller overwrites one element of a byte slice it was handed
MutateBytes ==
    /\ op.name \in {"GetPathInterface", "GetPathTyped"}
    /\ ret.err = "nil"
    /\ ret.val.type = TBytes
    /\ \E i \in 1..Len(mem[ret.val.v]) :
          mem' = [mem EXCEPT ![ret.val.v][i] = 0]
    /\ op' = [op EXCEPT !.name = "MutateBytes"]
    /\ UNCHANGED <<graph, ret, pre>>

NextPath == CallGetPathInterface \/ CallGetPathTyped \/ MutateBytes

SpecPath == InitPath /\ [][NextPath]_vars

-----------------------------------------------------------------------------
(* The graphs of the default filler's runs, after the types of TestSetDefaults *)

sIsMale == <<"i", "s", "M", "a", "l", "e">>
sA == <<"a">>
sB == <<"b">>
sW == <<"w">>
sIn == <<"i", "n">>

tBool == TScalar("bool")

\* a record of three scalars: the descriptors of its fields
tLeaf(tags) == TStruct("leaf", <<Fld(sName, tString, tags[1]),
                                 Fld(sFloor, tInt8, tags[2]),
                                 Fld(sIsMale, tBool, tags[3])>>)

dJo == <<"J", "o">>
d30 == <<"3", "0">>
d1000 == <<"1", "0", "0", "0">>
dTrue == <<"t", "r", "u", "e">>
d33 == <<"3", "3">>
dError == <<"e", "r", "r", "o", "r">>

\* all descriptors parse; the 8-bit one overflows; the boolean one is no
\* boolean; no field has a descriptor
LeafTags == {<<dJo, d30, dTrue>>, <<dJo, d1000, dTrue>>, <<dJo, d30, dError>>, <<<<>>, <<>>, <<>>>>}

LeafTypes == {tLeaf(tags) : tags \in LeafTags}

LeafValues(t) == {Val(t, <<Str(<<>>), Val(tInt8, 0), Val(tBool, FALSE)>>),
                  Val(t, <<Str(<<"X">>), Val(tInt8, 5), Val(tBool, TRUE)>>)}

AllLeafValues(t) == {Val(t, <<Str(s), Val(tInt8, f), Val(tBool, m)>>) :
                        s \in {<<>>, <<"X">>}, f \in {0, 5}, m \in BOOLEAN}

tPair(la, lb) == TStruct("pair", <<Fld(sA, la, <<>>), Fld(sB, lb, <<>>), Fld(sCity, tString, <<"B">>)>>)

tWrap(la) == TStruct("wrap", <<Fld(sIn, la, <<>>)>>)

tDeep(la, lb) == TStruct("deep", <<Fld(sW, tWrap(la), <<>>), Fld(sB, lb, <<>>)>>)

tCont(ls, lm) == TStruct("cont", <<Fld(sList, TSlice(ls), <<>>), Fld(sHobbys, TMap(tString, lm), <<>>)>>)

tShelf(lm, lb) == TStruct("shelf", <<Fld(sHobbys, TMap(tString, lm), <<>>), Fld(sB, lb, <<>>)>>)

\* a record of a scalar and a sequence of records, held by value in a map
tBox(l) == TStruct("box", <<Fld(sName, tString, dJo), Fld(sList, TSlice(l), <<>>)>>)

MapKeyNames == {<<"k">>, <<"j">>}

SliceValues(t) == {Val(TSlice(t), q) : q \in SeqsUpTo(LeafValues(t), MaxSliceLen)}

MapValues(t) == {Val(TMap(tString, t), m) : m \in UNION {[D -> LeafValues(t)] : D \in SUBSET MapKeyNames}}

LeafGraphs == UNION {AllLeafValues(t) : t \in LeafTypes}

PairGraphs ==
    UNION {{Val(tPair(la, lb), <<a, b, Str(c)>>) : a \in LeafValues(la), b \in LeafValues(lb), c \in {<<>>, <<"Z">>}} :
           la \in LeafTypes, lb \in LeafTypes}

DeepGraphs ==
    UNION {{Val(tDeep(la, lb), <<Val(tWrap(la), <<a>>), b>>) : a \in LeafValues(la), b \in LeafValues(lb)} :
           la \in LeafTypes, lb \in LeafTypes}

ContGraphs ==
    UNION {{Val(tCont(ls, lm), <<l, m>>) : l \in SliceValues(ls), m \in MapValues(lm)} :
           ls \in LeafTypes, lm \in LeafTypes}

ShelfGraphs ==
    UNION {{Val(tShelf(lm, lb), <<m, b>>) : m \in MapValues(lm), b \in LeafValues(lb)} :
           lm \in LeafTypes, lb \in LeafTypes}

BoxValues(l) ==
    {Val(tBox(l), <<Str(<<>>), Val(TSlice(l), q)>>) :
        q \in SeqsUpTo({Val(l, <<Str(<<>>), Val(tInt8, 0), Val(tBool, FALSE)>>)}, MaxSliceLen)}

BoxGraphs ==
    UNION {{Val(TMap(tString, tBox(l)), m) : m \in UNION {[D -> BoxValues(l)] : D \in SUBSET MapKeyNames}} :
           l \in LeafTypes}

\* a record with an optional reference to a record between two scalars
tOpt(l) == TStruct("opt", <<Fld(sName, tString, dJo), Fld(sNext, TPtr(l), <<>>), Fld(sCity, tString, <<"B">>)>>)

\* an optional reference to a record: unset, or set to an empty record
OptRefs(l) == {Nil(l), Ref(Val(l, <<Str(<<>>), Val(tInt8, 0), Val(tBool, FALSE)>>))}

\* optional references as a record field, as sequence elements and as map values
OptGraphs ==
    UNION {{Val(tOpt(l), <<Str(<<>>), r, Str(<<>>)>>) : r \in OptRefs(l)}
           \cup {Val(TSlice(TPtr(l)), q) : q \in SeqsUpTo(OptRefs(l), MaxSliceLen)}
           \cup {Val(TMap(tString, TPtr(l)), m) : m \in UNION {[D -> OptRefs(l)] : D \in SUBSET MapKeyNames}} :
           l \in LeafTypes}

\* the README's example: a string and an optional reference to a string with
\* the same descriptor
tRef == TStruct("ref", <<Fld(sStringVar1, tString, d33), Fld(sStringVar2, TPtr(tString), d33)>>)

RefGraphs == {Val(tRef, <<Str(a), b>>) : a \in {<<>>, <<"X">>}, b \in {Nil(tString), Ref(Str(<<>>)), Ref(Str(<<"X">>))}}

\* the records of TestSetDefaultsJson: sequences and maps of scalars, by value
\* and behind optional references, whose descriptors are structured literals
dListAB == <<"[", "\"", "a", "\"", ",", "\"", "b", "\"", "]">>
dMapAB == <<"{", "\"", "a", "\"", ":", " ", "5", ",", "\"", "b", "\"", ":", " ", "6", "}">>
dMapBad == <<"{", "\"", "a", "\"", ":", " ", "5", "}", ",", "\"", "b", "\"", ":", " ", "6", "}", "}">>

tStrings == TSlice(tString)
tCounts == TMap(tString, TScalar("int"))

tJson == TStruct("structur", <<Fld(sStringSlice, tStrings, dListAB), Fld(sStringMapOfInt, tCounts, dMapAB)>>)
tJsonPtr == TStruct("structurPtr", <<Fld(sStringSlice, TPtr(tStrings), dListAB),
                                     Fld(sStringMapOfInt, TPtr(tCounts), dMapAB)>>)
tJsonError == TStruct("structurMapError", <<Fld(sStringMapOfInt, tCounts, dMapBad)>>)

\* the test's inputs are zero values: empty containers and unset references
JsonGraphs ==
    {Val(tJson, <<Val(tStrings, <<>>), Val(tCounts, <<>>)>>),
     Val(tJsonPtr, <<Nil(tStrings), Nil(tCounts)>>),
     Val(tJsonPtr, <<Ref(Val(tStrings, <<>>)), Ref(Val(tCounts, <<>>))>>),
     Val(tJsonError, <<Val(tCounts, <<>>)>>)}

SliceGraphs == UNION {SliceValues(t) : t \in LeafTypes}

MapGraphs == UNION {MapValues(t) : t \in LeafTypes}

\* the record of TestSetDefaultsTimeDuration: a timestamp with its descriptor
\* and layout, between two strings with descriptors
sC128 == <<"c", "1", "2", "8">>
sC64 == <<"c", "6", "4">>

tStamped(tag, layout) == TStruct("stamped", <<Fld(sName, tString, dJo),
                                              FldL(sBirthDate, tTime, tag, layout),
                                              Fld(sCity, tString, <<"B">>)>>)

tStampedRef(tag, layout) == TStruct("stampedRef", <<Fld(sName, tString, dJo),
                                                    FldL(sBirthDate, TPtr(tTime), tag, layout),
                                                    Fld(sCity, tString, <<"B">>)>>)

\* the layout presets the README lists: the identifier, the name of the layout
\* in package time, the layout, and a timestamp written in it
Presets ==
    <<[id |-> <<"l", "a", "y", "o", "u", "t">>,
       name |-> <<"L", "a", "y", "o", "u", "t">>,
       layout |-> Layout,
       sample |-> <<"0", "1", "/", "0", "2", " ", "0", "3", ":", "0", "4", ":", "0", "5", "P", "M", " ", "'", "0", "6", " ", "-", "0", "7", "0", "0">>],
      [id |-> <<"a", "n", "s", "i", "c">>,
       name |-> <<"A", "N", "S", "I", "C">>,
       layout |-> ANSIC,
       sample |-> <<"T", "u", "e", " ", "S", "e", "p", " ", " ", "4", " ", "0", "8", ":", "3", "0", ":", "0", "0", " ", "1", "9", "9", "0">>],
      [id |-> <<"u", "n", "i", "x", "d", "a", "t", "e">>,
       name |-> <<"U", "n", "i", "x", "D", "a", "t", "e">>,
       layout |-> UnixDate,
       sample |-> <<"T", "u", "e", " ", "S", "e", "p", " ", " ", "4", " ", "0", "8", ":", "3", "0", ":", "0", "0", " ", "U", "T", "C", " ", "1", "9", "9", "0">>],
      [id |-> <<"r", "u", "b", "y", "d", "a", "t", "e">>,
       name |-> <<"R", "u", "b", "y", "D", "a", "t", "e">>,
       layout |-> RubyDate,
       sample |-> <<"T", "u", "e", " ", "S", "e", "p", " ", "0", "4", " ", "0", "8", ":", "3", "0", ":", "0", "0", " ", "+", "0", "2", "0", "0", " ", "1", "9", "9", "0">>],
      [id |-> <<"r", "f", "c", "8", "2", "2">>,
       name |-> <<"R", "F", "C", "8", "2", "2">>,
       layout |-> RFC822,
       sample |-> <<"0", "4", " ", "S", "e", "p", " ", "9", "0", " ", "0", "8", ":", "3", "0", " ", "U", "T", "C">>],
      [id |-> <<"r", "f", "c", "8", "5", "0">>,
       name |-> <<"R", "F", "C", "8", "5", "0">>,
       layout |-> RFC850,
       sample |-> <<"T", "u", "e", "s", "d", "a", "y", ",", " ", "0", "4", "-", "S", "e", "p", "-", "9", "0", " ", "0", "8", ":", "3", "0", ":", "0", "0", " ", "U", "T", "C">>],
      [id |-> <<"r", "f", "c", "1", "1", "2", "3">>,
       name |-> <<"R", "F", "C", "1", "1", "2", "3">>,
       layout |-> RFC1123,
       sample |-> <<"T", "u", "e", ",", " ", "0", "4", " ", "S", "e", "p", " ", "1", "9", "9", "0", " ", "0", "8", ":", "3", "0", ":", "0", "0", " ", "U", "T", "C">>],
      [id |-> <<"r", "f", "c", "1", "1", "2", "3", "z">>,
       name |-> <<"R", "F", "C", "1", "1", "2", "3", "Z">>,
       layout |-> RFC1123Z,
       sample |-> <<"T", "u", "e", ",", " ", "0", "4", " ", "S", "e", "p", " ", "1", "9", "9", "0", " ", "0", "8", ":", "3", "0", ":", "0", "0", " ", "+", "0", "2", "0", "0">>],
      [id |-> <<"r", "f", "c", "3", "3", "3", "9">>,
       name |-> <<"R", "F", "C", "3", "3", "3", "9">>,
       layout |-> RFC3339,
       sample |-> <<"1", "9", "9", "0", "-", "0", "9", "-", "0", "4", "T", "0", "8", ":", "3", "0", ":", "0", "0", "Z">>],
      [id |-> <<"r", "f", "c", "3", "3", "3", "9", "n", "a", "n", "o">>,
       name |-> <<"R", "F", "C", "3", "3", "3", "9", "N", "a", "n", "o">>,
       layout |-> RFC3339Nano,
       sample |-> <<"1", "9", "9", "0", "-", "0", "9", "-", "0", "4", "T", "0", "8", ":", "3", "0", ":", "0", "0", ".", "5", "Z">>],
      [id |-> <<"k", "i", "t", "c", "h", "e", "n">>,
       name |-> <<"K", "i", "t", "c", "h", "e", "n">>,
       layout |-> Kitchen,
       sample |-> <<"8", ":", "3", "0", "A", "M">>],
      [id |-> <<"s", "t", "a", "m", "p">>,
       name |-> <<"S", "t", "a", "m", "p">>,
       layout |-> Stamp,
       sample |-> <<"S", "e", "p", " ", " ", "4", " ", "0", "8", ":", "3", "0", ":", "0", "0">>],
      [id |-> <<"s", "t", "a", "m", "p", "m", "i", "l", "l", "i">>,
       name |-> <<"S", "t", "a", "m", "p", "M", "i", "l", "l", "i">>,
       layout |-> StampMilli,
       sample |-> <<"S", "e", "p", " ", " ", "4", " ", "0", "8", ":", "3", "0", ":", "0", "0", ".", "0", "0", "0">>],
      [id |-> <<"s", "t", "a", "m", "p", "m", "i", "c", "r", "o">>,
       name |-> <<"S", "t", "a", "m", "p", "M", "i", "c", "r", "o">>,
       layout |-> StampMicro,
       sample |-> <<"S", "e", "p", " ", " ", "4", " ", "0", "8", ":", "3", "0", ":", "0", "0", ".", "0", "0", "0", "0", "0", "0">>],
      [id |-> <<"s", "t", "a", "m", "p", "n", "a", "n", "o">>,
       name |-> <<"S", "t", "a", "m", "p", "N", "a", "n", "o">>,
       layout |-> StampNano,
       sample |-> <<"S", "e", "p", " ", " ", "4", " ", "0", "8", ":", "3", "0", ":", "0", "0", ".", "0", "0", "0", "0", "0", "0", "0", "0", "0">>],
      [id |-> <<"d", "a", "t", "e", "t", "i", "m", "e">>,
       name |-> <<"D", "a", "t", "e", "T", "i", "m", "e">>,
       layout |-> DateTime,
       sample |-> <<"1", "9", "9", "0", "-", "0", "9", "-", "0", "4", " ", "0", "8", ":", "3", "0", ":", "0", "0">>],
      [id |-> <<"d", "a", "t", "e", "o", "n", "l", "y">>,
       name |-> <<"D", "a", "t", "e", "O", "n", "l", "y">>,
       layout |-> DateOnly,
       sample |-> <<"1", "9", "9", "0", "-", "0", "9", "-", "0", "4">>],
      [id |-> <<"t", "i", "m", "e", "o", "n", "l", "y">>,
       name |-> <<"T", "i", "m", "e", "O", "n", "l", "y">>,
       layout |-> TimeOnly,
       sample |-> <<"0", "8", ":", "3", "0", ":", "0", "0">>]>>

\* an identifier in lower case, in upper case and as package time writes it
Spellings(p) == {p.id, ToUpper(p.id), p.name}

dDay == <<"0", "4", ".", "0", "9", ".", "1", "9", "9", "0">>
dDayLayout == <<"0", "2", ".", "0", "1", ".", "2", "0", "0", "6">>
dNow == <<"N", "o", "w">>
dSomeday == <<"s", "o", "m", "e", "d", "a", "y">>

\* no descriptor; the test's own layout; every preset in every spelling, with
\* a timestamp written in it; no layout; the clock; no timestamp at all
StampDescriptors ==
    {[tag |-> <<>>, layout |-> <<>>], [tag |-> dDay, layout |-> dDayLayout],
     [tag |-> Presets[9].sample, layout |-> <<>>],
     [tag |-> dNow, layout |-> <<>>], [tag |-> dSomeday, layout |-> <<>>]}
    \cup UNION {{[tag |-> Presets[i].sample, layout |-> l] : l \in Spellings(Presets[i])} : i \in 1..Len(Presets)}

\* the zero timestamp, and a reading of the clock (which refers to its zone)
StampValues == {ZeroTime, Now}

TimeGraphs ==
    {Val(tStamped(d.tag, d.layout), <<Str(<<>>), t, Str(<<>>)>>) : d \in StampDescriptors, t \in StampValues}
    \cup {Val(tStampedRef(dDay, dDayLayout), <<Str(<<>>), r, Str(<<>>)>>) :
            r \in {Nil(tTime), Ref(ZeroTime), Ref(Now)}}

\* the record of TestSetDefaultsComplext: a complex of either width, both with
\* the same descriptor
tComplexes(tag) == TStruct("structur", <<Fld(sC128, TScalar("complex128"), tag),
                                         Fld(sC64, TScalar("complex64"), tag)>>)

dCx == <<"3", ".", "5", "+", "2", ".", "7", "i">>
dCxUnit == <<"0", "+", "1", "i">>
dCxNoI == <<"3", ".", "5", "+", "2", ".", "7">>
dCxSpaced == <<"3", ".", "5", " ", "+", " ", "2", ".", "7", "i">>
dCxMinus == <<"3", ".", "5", "-", "2", ".", "7", "i">>
dCxThree == <<"1", "+", "2", "+", "3", "i">>
dCxReal == <<"3", ".", "5">>
dCxBadReal == <<"x", "+", "2", "i">>
dCxBadImag == <<"3", ".", "5", "+", "y", "i">>

ComplexTags == {<<>>, dCx, dCxUnit, dCxNoI, dCxSpaced, dCxMinus, dCxThree, dCxReal, dCxBadReal, dCxBadImag}

ComplexValues == {Complex(NormalFloat(0, 0), NormalFloat(0, 0)), Complex(NormalFloat(15, 1), NormalFloat(2, 0))}

ComplexGraphs ==
    {Val(tComplexes(tag), <<Val(TScalar("complex128"), a), Val(TScalar("complex64"), b)>>) :
        tag \in ComplexTags, a \in ComplexValues, b \in ComplexValues}

FillGraphs ==
    LeafGraphs \cup PairGraphs \cup DeepGraphs \cup ContGraphs \cup ShelfGraphs \cup SliceGraphs \cup MapGraphs
    \cup BoxGraphs \cup OptGraphs \cup RefGraphs \cup JsonGraphs \cup TimeGraphs \cup ComplexGraphs

\* the orders in which one call can iterate the keys of a map
KeyOrders == {<<<<"k">>, <<"j">>>>, <<<<"j">>, <<"k">>>>}

-----------------------------------------------------------------------------
(* The runs of the default filler *)

InitDefaults ==
    /\ graph \in FillGraphs
    /\ mem = [a \in {FingerprintAddr} |-> <<>>]
    /\ ret = NoRet
    /\ pre = graph
    /\ op = NoOp

\* SetDefaults(&graph); a panic leaves the graph as far as it was written
CallSetDefaults ==
    \E ord \in KeyOrders :
        LET r == SetDefaults(graph, ord)
        IN /\ graph' = r.n
           /\ ret' = [val |-> NilIface, err |-> IF r.panic THEN "panic" ELSE r.err]
           /\ pre' = graph
           /\ op' = [name |-> "SetDefaults", T |-> "", path |-> <<>>, elems |-> ord, raw |-> FALSE]
           /\ UNCHANGED mem

NextDefaults == CallSetDefaults

SpecDefaults == InitDefaults /\ [][NextDefaults]_vars

-----------------------------------------------------------------------------
(* The runs of the tokenizer: parsePath applied to one path string.  The string
   is either any text over the characters the tokenizer tells apart, or a
   sequence of elements written out with separators and brackets. *)

PathChars == {"a", ".", "/", "\\", "[", "]", "\"", " ", "\t", "$"}

\* the elements a written-out path is made of
PathElems == {<<"a">>, <<"$">>, <<"b", "0">>}

\* how an element is written: after a separator, in brackets, in brackets
\* after a separator, quoted in brackets; the first one also bare
JoinStyles == {".", "/", "\\", "[", ".[", "[q"}

WriteElem(style, e) ==
    CASE style = "[" -> <<"[">> \o e \o <<"]">>
      [] style = ".[" -> <<".", "[">> \o e \o <<"]">>
      [] style = "[q" -> <<"[", "\"">> \o e \o <<"\"", "]">>
      [] style = "" -> e
      [] OTHER -> <<style>> \o e

RECURSIVE WritePath(_, _)
WritePath(es, styles) ==
    IF es = <<>> THEN <<>>
    ELSE WriteElem(styles[1], es[1]) \o WritePath(Tail(es), Tail(styles))

\* the ways of writing a sequence of elements
StylesFor(es) ==
    {<<first>> \o rest : first \in {"", "[", "[q"}, rest \in [1..(Len(es) - 1) -> JoinStyles]}

TokenInputs ==
    {[elems |-> <<>>, path |-> p, raw |-> TRUE] : p \in SeqsUpTo(PathChars, MaxPathLen)}
    \cup UNION {{[elems |-> es, path |-> WritePath(es, st), raw |-> FALSE] : st \in StylesFor(es)} :
                es \in SeqsUpTo(PathElems, MaxPathElems) \ {<<>>}}

InitTokens ==
    /\ graph = Str(<<>>)
    /\ mem = [a \in {FingerprintAddr} |-> <<>>]
    /\ ret = NoRet
    /\ pre = graph
    /\ \E in \in TokenInputs :
          op = [name |-> "init", T |-> "", path |-> in.path, elems |-> in.elems, raw |-> in.raw]

\* parsePath(op.path): the elements come back as a []string
CallParsePath ==
    /\ op.name = "init"
    /\ ret' = [val |-> Iface(TSlice(tString), parsePath(op.path).elems), err |-> parsePath(op.path).err]
    /\ op' = [op EXCEPT !.name = "parsePath"]
    /\ UNCHANGED <<graph, mem, pre>>

NextTokens == CallParsePath

SpecTokens == InitTokens /\ [][NextTokens]_vars

-----------------------------------------------------------------------------
(* What the claims about the path accessor speak of, stated on the graph
   itself and not through the resolver *)

ScalarKinds == {"string", "bool"} \cup IntKinds \cup UintKinds \cup FloatKinds \cup ComplexKinds

\* the field of struct value n that a name selects: a field of n, or a field
\* promoted from an embedded struct of n; same(a, b) compares names
FieldsSelected(n, e, same(_, _)) ==
    {n.v[i] : i \in {j \in 1..Len(n.t.fields) : same(n.t.fields[j].name, e)}}
    \cup UNION {{n.v[i].v[k] : k \in {j \in 1..Len(n.v[i].t.fields) : same(n.v[i].t.fields[j].name, e)}} :
                i \in {j \in 1..Len(n.t.fields) : n.t.fields[j].embedded /\ n.v[j].t.kind = "struct"}}

ExactName(a, b) == a = b

\* the values at the position a chain of elements names: none when the chain
\* leaves the graph
\* how the keys of the model's maps are written: element and key
KeyReadings(kind) ==
    CASE kind = "int8" -> {<<<<"1">>, 1>>, <<<<"-", "1">>, 0 - 1>>, <<<<"0">>, 0>>}
      [] kind = "uint8" -> {<<<<"1">>, 1>>, <<<<"0">>, 0>>}
      [] kind = "bool" -> {<<<<"1">>, TRUE>>, <<<<"t", "r", "u", "e">>, TRUE>>, <<<<"0">>, FALSE>>}
      [] kind = "float64" ->
           {<<<<"1">>, [m |-> 1, e |-> 0]>>, <<<<"-", "1">>, [m |-> 0 - 1, e |-> 0]>>,
            <<<<"3", "0", "0">>, [m |-> 300, e |-> 0]>>, <<<<"0">>, [m |-> 0, e |-> 0]>>,
            <<<<"1", ".", "5">>, [m |-> 15, e |-> 1]>>,
            <<<<"1", ".", "5", "0">>, [m |-> 15, e |-> 1]>>}
      [] OTHER -> {}

\* element e names key q of a map with this key type
KeyWritten(keyType, q, e) ==
    IF keyType.kind = "string" THEN q = e ELSE <<e, q>> \in KeyReadings(keyType.kind)

RECURSIVE Positions(_, _, _)
Positions(node, es, fold) ==
    LET n == Innermost(node)
        k == n.t.kind
    IN IF es = <<>> THEN {n}
       ELSE IF k = "struct"
       THEN UNION {Positions(c, Tail(es), fold) :
                   c \in IF fold THEN FieldsSelected(n, es[1], EqualFold)
                         ELSE FieldsSelected(n, es[1], ExactName)}
       ELSE IF k = "slice"
       THEN UNION {Positions(Index(RV(n, {}), i).n, Tail(es), fold) :
                   i \in {j \in 0..(SliceLen(n) - 1) : IndexName(j) = es[1]}}
       ELSE IF k = "map"
       THEN UNION {Positions(n.v[key], Tail(es), fold) :
                   key \in {q \in DOMAIN n.v : KeyWritten(n.t.key, q, es[1])}}
       ELSE {}

\* the chain ends on a stored scalar
LandsOnScalar(es) ==
    \E n \in Positions(graph, es, FALSE) : n.t.kind \in ScalarKinds

\* the chain ends on an existing optional reference that is unset
EndsAtUnsetOptional(es) ==
    es # <<>> /\ \E n \in Positions(graph, es, FALSE) : IsNilPtr(n)

\* the chains whose last element names no field of the record it is applied to
MissingFieldPaths ==
    {es \in PathsFrom(graph, MaxPathElems) :
        /\ es # <<>>
        /\ \E n \in Positions(graph, SubSeq(es, 1, Len(es) - 1), FALSE) :
              n.t.kind = "struct" /\ FieldsSelected(n, es[Len(es)], ExactName) = {}}

\* C1: whenever the elements of the path name existing positions of the graph
\* (record fields, exported or not or promoted, indexes in range, present keys)
\* and the last one lands on a scalar, GetPathInterface returns that scalar and
\* no error.
C1_ReturnsStoredScalar ==
    (op.name = "GetPathInterface" /\ ~op.raw /\ LandsOnScalar(op.elems)) =>
        /\ ret.err = "nil"
        /\ \E n \in Positions(graph, op.elems, FALSE) :
              ret.val.type.kind = n.t.kind /\ ret.val.v = n.v

\* C2: mutating a value GetPathInterface returned (overwriting an element of a
\* returned byte sequence) leaves everything stored in the graph unchanged.
C2_ResultNeverAliasesGraph == [][MutateBytes => GraphView' = GraphView]_vars

\* C3: a path element that equals a field name up to letter case finds the
\* field: the call does not report the segment as not found.
C3_FieldNamesIgnoreCase ==
    (op.name = "GetPathInterface" /\ ~op.raw /\ Positions(graph, op.elems, TRUE) # {}) =>
        ret.err # "errObjNotExists"

-----------------------------------------------------------------------------
(* What the claims about the typed getters speak of *)

\* the name Go prints for a dynamic type
GoTypeName(t) ==
    IF t.kind = "slice" THEN (IF t.elem = TScalar("uint8") THEN "[]byte" ELSE "[]T")
    ELSE IF t.kind = "map" THEN "map[K]T"
    ELSE IF t.kind = "ptr" THEN "*T"
    ELSE t.name

\* the error text of each getter when the resolved value is of another type
MismatchText ==
    [T \in GetterTypes |->
        CASE T = "string" -> "object is not a string"
          [] T = "bool" -> "object is not a bool"
          [] T = "int" -> "object is not a int"
          [] T = "int16" -> "object is not a int16"
          [] T = "int32" -> "object is not a int32"
          [] T = "int64" -> "object is not a int64"
          [] T = "uint" -> "object is not a uint"
          [] T = "uint8" -> "object is not a uint8"
          [] T = "uint16" -> "object is not a uint16"
          [] T = "uint32" -> "object is not a uint32"
          [] T = "uint64" -> "object is not a uint64"
          [] T = "float32" -> "object is not a float32"
          [] T = "float64" -> "object is not a float64"
          [] T = "complex64" -> "object is not a complex64"
          [] T = "complex128" -> "object is not a complex128"
          [] T = "[]byte" -> "object is not a []byte"
          [] T = "time.Time" -> "object is not a time.Time"
          [] T = "time.Duration" -> "object is not a time.Duration"]

\* the zero value of the getter's return type: the payload, and whether r is it
IsZeroOf(T, r) ==
    CASE T = "string" -> r.v = <<>>
      [] T = "bool" -> r.v = FALSE
      [] T = "time.Time" -> r.v = <<0, 0, <<>>>>
      [] OTHER -> r.v = 0

\* C4: a typed getter returns GetPathInterface's error with the zero value when
\* that call fails, the not-found error when it yields nil, the error "object
\* is not a <T>" with the zero value when the resolved value's type is not
\* exactly T, and the resolved value with no error otherwise.
C4_TypedGetterContract ==
    (op.name = "GetPathTyped") =>
        LET r == GetPathInterface(graph, op.path)
        IN IF r.err # "nil" THEN ret.err = r.err /\ IsZeroOf(op.T, ret.val)
           ELSE IF r.val = NilIface THEN ret.err = "errObjNotExists"
           ELSE IF GoTypeName(r.val.type) # op.T
           THEN ret.err = MismatchText[op.T] /\ IsZeroOf(op.T, ret.val)
           ELSE ret.err = "nil" /\ ret.val = r.val

\* a getter asked for a 16-bit integer where an 8-bit one is stored
C4_Witness ==
    /\ op.name = "GetPathTyped" /\ op.T = "int16"
    /\ \E n \in Positions(graph, op.elems, FALSE) : n.t.kind = "int8"
    /\ ret.err = "object is not a int16"

\* the outcome of the call of the state for another path
OutcomeFor(es) ==
    IF op.name = "GetPathInterface" THEN GetPathInterface(graph, JoinDots(es))
    ELSE GetPathTyped(op.T, graph, JoinDots(es))

\* C5 as stated: with GetPathInterface and with every typed getter, the outcome
\* for a path ending at an unset optional reference differs from the outcome for
\* every path naming a field that does not exist, and both differ from the
\* wrong-type outcome.
C5_EmptyDiffersFromMissing ==
    (op.name \in {"GetPathInterface", "GetPathTyped"} /\ ~op.raw /\ EndsAtUnsetOptional(op.elems)) =>
        \A m \in MissingFieldPaths :
            /\ OutcomeFor(m) # ret
            /\ op.name = "GetPathTyped" =>
                  ret.err # MismatchText[op.T] /\ OutcomeFor(m).err # MismatchText[op.T]

\* C5 amended: GetPathInterface answers a path ending at an unset optional
\* reference with nil and no error, and a path naming a missing field with the
\* not-found error; a typed getter answers both with the same not-found error,
\* which differs from its wrong-type error.
C5_EmptyDiffersFromMissingUntyped ==
    (op.name \in {"GetPathInterface", "GetPathTyped"} /\ ~op.raw /\ EndsAtUnsetOptional(op.elems)) =>
        /\ op.name = "GetPathInterface" => ret = Ok(NilIface)
        /\ op.name = "GetPathTyped" =>
              ret.err = "errObjNotExists" /\ ret.err # MismatchText[op.T]
        /\ \A m \in MissingFieldPaths : OutcomeFor(m).err = "errObjNotExists"

\* a typed getter asked for an unset optional reference of a graph that has
\* paths naming missing fields
C5_Witness ==
    /\ op.name = "GetPathTyped"
    /\ EndsAtUnsetOptional(op.elems)
    /\ MissingFieldPaths # {}
    /\ ret.err = "errObjNotExists"

-----------------------------------------------------------------------------
(* What the claims about the default filler speak of: the scalar fields of a
   graph in the order a depth-first walk meets them (fields in declaration
   order, elements by index, map values in the order the call iterates the
   keys), and what each descriptor of the model denotes *)

RECURSIVE Flatten(_, _, _)
RECURSIVE FlattenFields(_, _, _, _)
RECURSIVE FlattenElems(_, _, _, _)
RECURSIVE FlattenKeys(_, _, _, _)

\* one entry per scalar field: the record it belongs to (by its position in the
\* graph), its name, descriptor and kind, and the value stored
Flatten(n, path, ord) ==
    IF n.t.kind = "ptr" THEN (IF n.v = <<>> THEN <<>> ELSE Flatten(n.v[1], path, ord))
    ELSE IF n.t.kind = "struct" THEN FlattenFields(n, 1, path, ord)
    ELSE IF n.t.kind = "slice" /\ n.t # TBytes THEN FlattenElems(n, 1, path, ord)
    ELSE IF n.t.kind = "map"
    THEN FlattenKeys(n, SelectSeq(ord, LAMBDA key : key \in DOMAIN n.v), path, ord)
    ELSE <<>>

FlattenFields(n, i, path, ord) ==
    IF i > Len(n.v) THEN <<>>
    ELSE (IF n.v[i].t.kind \in ScalarKinds
          THEN <<[rec |-> path, name |-> n.t.fields[i].name, tag |-> n.t.fields[i].tag,
                  kind |-> n.v[i].t.kind, v |-> n.v[i].v]>>
          ELSE Flatten(n.v[i], Append(path, n.t.fields[i].name), ord))
         \o FlattenFields(n, i + 1, path, ord)

FlattenElems(n, i, path, ord) ==
    IF i > Len(n.v) THEN <<>>
    ELSE Flatten(n.v[i], Append(path, IndexName(i - 1)), ord) \o FlattenElems(n, i + 1, path, ord)

FlattenKeys(n, keys, path, ord) ==
    IF keys = <<>> THEN <<>>
    ELSE Flatten(n.v[keys[1]], Append(path, keys[1]), ord) \o FlattenKeys(n, Tail(keys), path, ord)

\* the fields before the call and after it
Before == Flatten(pre, <<>>, op.elems)
After == Flatten(graph, <<>>, op.elems)

\* the complex descriptors of the model that are written <real>+<imag>i
ComplexLiterals == {dCx, dCxUnit}

\* the descriptors of the model that are no literal of their field's type
IsBad(e) ==
    \/ (e.kind = "int8" /\ e.tag = d1000)
    \/ (e.kind = "bool" /\ e.tag = dError)
    \/ (e.kind \in ComplexKinds /\ e.tag # <<>> /\ e.tag \notin ComplexLiterals)

\* the field carries a descriptor that is a literal of its type
HasDefault(e) == e.tag # <<>> /\ ~IsBad(e)

\* the field holds the value its descriptor denotes
HoldsDefault(e, f) ==
    CASE e.kind = "string" -> f.v = e.tag
      [] e.kind = "int8" -> e.tag = d30 /\ f.v = 30
      [] e.kind = "bool" -> e.tag = dTrue /\ f.v = TRUE
      [] e.kind \in ComplexKinds ->
             \/ e.tag = dCx /\ f.v = Complex(NormalFloat(35, 1), NormalFloat(27, 1))
             \/ e.tag = dCxUnit /\ f.v = Complex(NormalFloat(0, 0), NormalFloat(1, 0))

HasBad == \E i \in 1..Len(Before) : IsBad(Before[i])

\* the first field in traversal order whose descriptor fails to parse
FirstBad == CHOOSE i \in 1..Len(Before) : IsBad(Before[i]) /\ \A j \in 1..(i - 1) : ~IsBad(Before[j])

\* the error the filler reports for a field
FailureText(e) ==
    CASE e.name = sFloor -> "failed to parse default tag for field floor: invalid syntax"
      [] e.name = sIsMale -> "failed to parse default tag for field isMale: invalid syntax"
      [] e.name = sC128 -> "failed to parse default tag for field c128: invalid syntax"
      [] e.name = sC64 -> "failed to parse default tag for field c64: invalid syntax"

\* slices keep their lengths and maps their keys
RECURSIVE SameShape(_, _)
SameShape(a, b) ==
    /\ a.t = b.t
    /\ IF a.t.kind \in {"struct", "slice", "ptr"}
       THEN Len(a.v) = Len(b.v) /\ \A i \in 1..Len(a.v) : SameShape(a.v[i], b.v[i])
       ELSE IF a.t.kind = "map"
       THEN DOMAIN a.v = DOMAIN b.v /\ \A key \in DOMAIN a.v : SameShape(a.v[key], b.v[key])
       ELSE TRUE

\* C6: after a SetDefaults that returned no error, every scalar field the walk
\* reached (here: every field up to the first one whose descriptor fails, all
\* fields when none fails) that carries a descriptor holds the value the
\* descriptor denotes, whatever it held before.
C6_SuccessOverwritesAll ==
    (op.name = "SetDefaults" /\ ret.err = "nil") =>
        \A i \in 1..Len(Before) :
            (HasDefault(Before[i]) /\ \A j \in 1..i : ~IsBad(Before[j])) =>
                HoldsDefault(Before[i], After[i])

\* the graph holds its records, sequences and maps by value: no optional
\* reference anywhere in it
RECURSIVE ByValue(_)
ByValue(n) ==
    IF n.t.kind = "ptr" THEN FALSE
    ELSE IF n.t.kind = "struct" \/ (n.t.kind = "slice" /\ n.t # TBytes)
    THEN \A i \in 1..Len(n.v) : ByValue(n.v[i])
    ELSE IF n.t.kind = "map" THEN \A key \in DOMAIN n.v : ByValue(n.v[key])
    ELSE TRUE

\* C7: on a graph of records, sequences and maps held by value, when every
\* descriptor of the graph parses, SetDefaults returns no error
\* and afterwards every descriptor-carrying field of every sequence element and
\* of every map value holds its default, every other field holds what it held,
\* and every map has the keys it had (each value stored back under its key).
C7_ContainersFilled ==
    (op.name = "SetDefaults" /\ ByValue(pre) /\ ~HasBad) =>
        /\ ret.err = "nil"
        /\ SameShape(pre, graph)
        /\ \A i \in 1..Len(Before) :
              IF HasDefault(Before[i]) THEN HoldsDefault(Before[i], After[i])
              ELSE After[i].v = Before[i].v

\* a record of a two-element sequence and a two-key map of records by value,
\* some of whose fields held other values, after the call
C7_Witness ==
    /\ op.name = "SetDefaults"
    /\ pre.t.kind = "struct" /\ pre.t.name = "cont"
    /\ Len(pre.v[1].v) = 2
    /\ DOMAIN pre.v[2].v = MapKeyNames
    /\ pre.v[1].t.elem.fields[1].tag = dJo /\ pre.v[2].t.elem.fields[1].tag = dJo
    /\ pre.v[2].v[<<"k">>].v[1].v = <<"X">>
    /\ graph.v[2].v[<<"k">>].v[1].v = dJo
    /\ graph.v[1].v[2].v[1].v = dJo
    /\ ret.err = "nil"

\* C8: whenever the descriptor of a field fails to parse, SetDefaults (when it
\* returns at all) returns
\* "failed to parse default tag for field <name>: <underlying error>" for the
\* field owning the descriptor, however deeply the field is nested and whatever
\* follows it.
C8_FailureIsReported ==
    (op.name = "SetDefaults" /\ HasBad /\ ret.err # "panic") => ret.err = FailureText(Before[FirstBad])

\* C9: once the descriptor of a field has failed to parse, no field later in
\* traversal order is written: each keeps the value it had before the call.
C9_FailureAbortsWalk ==
    (op.name = "SetDefaults" /\ HasBad /\ ret.err # "panic") =>
        \A i \in (FirstBad + 1)..Len(Before) : After[i].v = Before[i].v

\* C10: when a descriptor fails to parse, SetDefaults (when it returns at all)
\* fails with an "invalid
\* syntax" error, the failing field keeps the value it had, and the fields of
\* the same record filled before it hold their defaults.
C10_FailureKeepsEarlierDefaults ==
    (op.name = "SetDefaults" /\ HasBad /\ ret.err # "panic") =>
        /\ ret.err \in {FailureText([name |-> sFloor]), FailureText([name |-> sIsMale])}
        /\ After[FirstBad].v = Before[FirstBad].v
        /\ \A i \in 1..(FirstBad - 1) :
              (Before[i].rec = Before[FirstBad].rec /\ HasDefault(Before[i])) =>
                  HoldsDefault(Before[i], After[i])

\* C11: a second SetDefaults on the graph the first one left behind changes no
\* field and returns the error outcome the first one returned.
C11_SecondCallChangesNothing ==
    [][(op.name = "SetDefaults" /\ op'.name = "SetDefaults") =>
          (graph' = graph /\ ret'.err = ret.err)]_vars

\* the graph holds an unset optional reference to a record, sequence or map
RECURSIVE HasNilRef(_)
HasNilRef(n) ==
    IF n.t.kind = "ptr"
    THEN IF n.v = <<>> THEN DerefType(n.t).kind \in {"struct", "slice", "map"} ELSE HasNilRef(n.v[1])
    ELSE IF n.t.kind = "struct" \/ (n.t.kind = "slice" /\ n.t # TBytes)
    THEN \E i \in 1..Len(n.v) : HasNilRef(n.v[i])
    ELSE IF n.t.kind = "map" THEN \E key \in DOMAIN n.v : HasNilRef(n.v[key])
    ELSE FALSE

\* C12: on a graph that holds an unset optional reference to a record, sequence
\* or map (and whose descriptors all parse) SetDefaults returns no error and
\* does not crash, leaves the reference unset, and fills every
\* descriptor-carrying field of the graph.
C12_NilReferencesIgnored ==
    (op.name = "SetDefaults" /\ HasNilRef(pre) /\ ~HasBad) =>
        /\ ret.err = "nil"
        /\ SameShape(pre, graph)
        /\ \A i \in 1..Len(Before) : HasDefault(Before[i]) => HoldsDefault(Before[i], After[i])

\* the fields of the root record that are optional references to a scalar and
\* carry a descriptor
TaggedScalarRefs ==
    IF pre.t.kind # "struct" THEN {}
    ELSE {i \in 1..Len(pre.v) :
            /\ pre.v[i].t.kind = "ptr" /\ pre.v[i].t.elem.kind \in ScalarKinds
            /\ pre.t.fields[i].tag # <<>>}

\* C13: for a record field that is an optional reference to a scalar and
\* carries a descriptor, SetDefaults returns no error and leaves the field set
\* to a reference to the parsed value (a *string with descriptor "33" reads
\* "33").
C13_TaggedReferenceIsSet ==
    (op.name = "SetDefaults" /\ TaggedScalarRefs # {}) =>
        /\ ret.err = "nil"
        /\ \A i \in TaggedScalarRefs :
              /\ graph.v[i].v # <<>>
              /\ HoldsDefault([kind |-> pre.v[i].t.elem.kind, tag |-> pre.t.fields[i].tag],
                              graph.v[i].v[1])

\* the fields of the root record that are a sequence or a map (or an optional
\* reference to one) and carry a descriptor
TaggedContainers ==
    IF pre.t.kind # "struct" THEN {}
    ELSE {i \in 1..Len(pre.v) :
            DerefType(pre.v[i].t).kind \in {"slice", "map"} /\ pre.t.fields[i].tag # <<>>}

\* the container holds what the structured literal denotes
HoldsLiteral(tag, n) ==
    CASE tag = dListAB -> n.t.kind = "slice" /\ n.v = <<Str(<<"a">>), Str(<<"b">>)>>
      [] tag = dMapAB -> /\ n.t.kind = "map"
                         /\ DOMAIN n.v = {<<"a">>, <<"b">>}
                         /\ n.v[<<"a">>].v = 5 /\ n.v[<<"b">>].v = 6
      [] OTHER -> FALSE

\* C14: a sequence or map field (or an optional reference to one) that carries
\* a descriptor is filled as a whole from the descriptor read as a structured
\* literal, and a malformed literal makes SetDefaults return the error wrapped
\* with the field's name.
C14_ContainerLiteralFills ==
    (op.name = "SetDefaults" /\ TaggedContainers # {}) =>
        IF \E i \in TaggedContainers : pre.t.fields[i].tag = dMapBad
        THEN ret.err = "failed to parse default tag for field stringMapOfInt: "
                       \o "invalid character ',' after top-level value"
        ELSE /\ ret.err = "nil"
             /\ \A i \in TaggedContainers : HoldsLiteral(pre.t.fields[i].tag, Innermost(graph.v[i]))


-----------------------------------------------------------------------------
(* What the claims about the tokenizer speak of *)

\* the path elements parsePath handed back
Tokens == ret.val.v

\* the text begins with a root marker, which parsePath takes off
BeginsWithRoot(p) == HasPrefix(p, <<"$", ".">>)

(* C15: for every sequence of elements that hold no separator, bracket, quote,
   space or control character, the tokenizer gives back exactly that sequence
   when the elements are written one after the other with any mix of the
   separators '.', '/' and '\', and an element written in brackets (quoted or
   not, after a separator or not) counts like a separated element. *)
C15_TokenizerRoundTrip ==
    (op.name = "parsePath" /\ ~op.raw) =>
        (ret.err = "nil" /\ Tokens = op.elems)

(* C15, amended: the same, for every written path that does not begin with the
   root marker "$." (an element "$" followed by a dot is taken for the root
   marker and dropped). *)
C15_TokenizerRoundTripPastRoot ==
    (op.name = "parsePath" /\ ~op.raw /\ ~BeginsWithRoot(op.path)) =>
        (ret.err = "nil" /\ Tokens = op.elems)

\* three elements, the middle one quoted in brackets, the last after a backslash
C15_Witness ==
    /\ op.name = "parsePath" /\ ~op.raw
    /\ op.path = <<"a", "[", "\"", "b", "0", "\"", "]", "\\", "$">>
    /\ Tokens = <<<<"a">>, <<"b", "0">>, <<"$">>>>


\* the two root markers and the whitespace that may stand around a path
RootMarkers == {<<"$", ".">>, <<"$", ".", ".">>}

Blanks == {<<>>, <<" ">>}

\* '$.' + p and '$..' + p, with or without whitespace around
Decorated(p) == {b \o m \o p \o a : b \in Blanks, m \in RootMarkers, a \in Blanks}

\* what is left of p once the whitespace around it and the root marker are off
Undecorated(p) == TrimSpace(TrimPrefix(TrimPrefix(TrimSpace(p), <<"$", ".", ".">>), <<"$", ".">>))

(* C16: the root markers and the whitespace around a path change nothing: for
   every path string p, tokenizing "$." + p or "$.." + p, with or without
   whitespace around it, gives the outcome of tokenizing p (the same elements
   or the same error); and a path that is empty or all whitespace once the
   marker is off yields no elements and no error.  Stated here for the paths
   p that hold no '$' of their own, so that the only marker is the added one. *)
C16_RootMarkerIsCosmetic ==
    (op.name = "parsePath" /\ op.raw /\ \A i \in 1..Len(op.path) : op.path[i] # "$") =>
        /\ \A q \in Decorated(op.path) : parsePath(q) = [elems |-> Tokens, err |-> ret.err]
        /\ Undecorated(op.path) = <<>> => (Tokens = <<>> /\ ret.err = "nil")


\* the text the loop of the tokenizer runs over
Scanned == TrimPrefix(TrimPrefix(TrimSpace(op.path), <<"$", ".", ".">>), <<"$", ".">>)

\* the loop is entered at all
IsScanned == TrimSpace(Scanned) # <<>>

\* the modes the tokenizer is in when it meets the i-th character
ModeAt(i) == TokLoop(TokInit, SubSeq(Scanned, 1, i - 1), 1)

\* the i-th character is met, outside quotes
MetOutsideQuotes(i) == ModeAt(i).err = "nil" /\ ~ModeAt(i).quo

Separators == {".", "/", "\\"}

FailsWith(e) == ret.err = e /\ Tokens = <<>>

(* C17: outside quotes the tokenizer keeps the brackets in order: a '[' met
   inside brackets fails with the nested-brackets error, a ']' met outside
   brackets fails with the closed-without-open error, a separator met inside
   brackets fails with the brackets-left-open error, and no elements are
   returned. *)
C17_BracketDiscipline ==
    (op.name = "parsePath" /\ op.raw /\ IsScanned) =>
        \A i \in 1..Len(Scanned) :
            MetOutsideQuotes(i) =>
                /\ (Scanned[i] = "[" /\ ModeAt(i).brk) =>
                       FailsWith("errNesstedSquareBracketsNotPermitted")
                /\ (Scanned[i] = "]" /\ ~ModeAt(i).brk) =>
                       FailsWith("errLostCloseSquareBracket")
                /\ (Scanned[i] \in Separators /\ ModeAt(i).brk) =>
                       FailsWith("errEndSquareBracketsOpen")

\* a second bracket opens after "a[a"
C17_Witness ==
    /\ op.name = "parsePath" /\ op.raw
    /\ op.path = <<"a", "[", "a", "[">>
    /\ FailsWith("errNesstedSquareBracketsNotPermitted")


\* the characters that may follow the escape sign
EscapableChars == {".", "\\", "/", "[", "]", "\""}

\* the i-th character is an escape sign met inside quotes, outside escape mode
EscapeSignAt(i) ==
    /\ ModeAt(i).err = "nil" /\ ModeAt(i).quo /\ ~ModeAt(i).esc
    /\ Scanned[i] = "\\"

(* C18: a '\' inside quotes puts the tokenizer in escape mode for the one
   character that follows; one of '.', '\', '/', '[', ']', '"' is added as it
   is to the element under construction and ends escape mode (nothing else
   changes), and any other character fails with the unknown-escape-character
   error. *)
C18_EscapeHandling ==
    (op.name = "parsePath" /\ op.raw /\ IsScanned) =>
        \A i \in 1..(Len(Scanned) - 1) :
            EscapeSignAt(i) =>
                /\ ModeAt(i + 1) = [ModeAt(i) EXCEPT !.esc = TRUE]
                /\ IF Scanned[i + 1] \in EscapableChars
                   THEN ModeAt(i + 2) =
                            [ModeAt(i) EXCEPT !.element = Append(@, Scanned[i + 1])]
                   ELSE FailsWith("errUnknownEscChar")

\* an escaped dot inside quotes ends up in the element
C18_Witness ==
    /\ op.name = "parsePath" /\ op.raw
    /\ op.path = <<"\"", "\\", ".", "\"">>
    /\ ret.err = "nil" /\ Tokens = <<<<".">>>>


\* the modes the tokenizer is in when the text is used up
ModeAtEnd == ModeAt(Len(Scanned) + 1)

\* the elements closed so far and the one under construction, if there is one
ElementsAtEnd ==
    IF ModeAtEnd.element # <<>> THEN Append(ModeAtEnd.elems, ModeAtEnd.element)
    ELSE ModeAtEnd.elems

(* C19: when the text is used up, an open construct is refused with its own
   error and no elements: escape mode with the escape-needs-second-character
   error, else quotes with the quotes-left-open error, else brackets with the
   brackets-left-open error; only with none of the three open is the element
   under construction added as the last one. *)
C19_EndOfInput ==
    (op.name = "parsePath" /\ op.raw /\ IsScanned /\ ModeAtEnd.err = "nil") =>
        IF ModeAtEnd.esc THEN FailsWith("errEscape2Chars")
        ELSE IF ModeAtEnd.quo THEN FailsWith("errEndQuotsOpen")
        ELSE IF ModeAtEnd.brk THEN FailsWith("errEndSquareBracketsOpen")
        ELSE ret.err = "nil" /\ Tokens = ElementsAtEnd

\* the text ends inside brackets, outside quotes
C19_Witness ==
    /\ op.name = "parsePath" /\ op.raw
    /\ op.path = <<"a", "[", "a">>
    /\ FailsWith("errEndSquareBracketsOpen")


-----------------------------------------------------------------------------
(* What the claim about the segments of a path speaks of *)

\* the kinds of key a path element is converted to
KeyKinds == {"string", "bool"} \cup IntKinds \cup UintKinds \cup FloatKinds

\* the error a chain of elements must end with because of a segment that names
\* nothing, or "none": followed from node by names, indexes and keys
RECURSIVE SegmentError(_, _)
SegmentError(node, es) ==
    LET n == Innermost(node)
        k == n.t.kind
        fields == FieldsSelected(n, es[1], ExactName)
        indexes == {j \in 0..(SliceLen(n) - 1) : IndexName(j) = es[1]}
        keys == {q \in DOMAIN n.v : KeyWritten(n.t.key, q, es[1])}
    IN IF es = <<>> THEN "none"
       ELSE IF k = "struct"
       THEN IF FieldsSelected(n, es[1], EqualFold) = {} THEN "errObjNotExists"
            ELSE IF fields = {} THEN "none"
            ELSE SegmentError(CHOOSE c \in fields : TRUE, Tail(es))
       ELSE IF k = "slice"
       THEN IF indexes = {} THEN "errObjNotExists"
            ELSE SegmentError(Index(RV(n, {}), CHOOSE j \in indexes : TRUE).n, Tail(es))
       ELSE IF k = "map"
       THEN IF n.t.key.kind \notin KeyKinds THEN "unsupported key type: " \o n.t.key.kind
            ELSE IF keys = {} THEN "errObjNotExists"
            ELSE SegmentError(n.v[CHOOSE q \in keys : TRUE], Tail(es))
       ELSE "none"

(* C20: with path elements left, the resolver fails with the error 'object
   belonging to the path could not be retrieved' at a record that has no field
   of that name, at a sequence when the element is no number, is negative or is
   not below the length, and at a map when the element cannot be converted to
   the key type or the converted key is absent; at a map whose keys are neither
   strings, integers, floats nor booleans it fails with 'unsupported key type'. *)
C20_SegmentNotFound ==
    (op.name \in {"GetPathInterface", "GetPathTyped"} /\ ~op.raw
        /\ SegmentError(graph, op.elems) # "none") =>
        ret.err = SegmentError(graph, op.elems)


-----------------------------------------------------------------------------
(* What the claims about the end of a path speak of *)

\* the call came back (it did not panic on the way)
Returned == ret.err # "panic"

\* the values the chain of elements passes before its last element
ValuesBeforeEnd ==
    UNION {Positions(graph, SubSeq(op.elems, 1, j), FALSE) : j \in 0..(Len(op.elems) - 1)}

(* C21: with path elements left, the resolver fails with 'path is too long'
   when the value it stands on, references followed, is a scalar or an unset
   optional reference; with no element left on an unset optional reference it
   returns nil and no error. *)
C21_PathLengthRule ==
    (op.name = "GetPathInterface" /\ ~op.raw /\ Returned) =>
        /\ (\E n \in ValuesBeforeEnd : n.t.kind \in ScalarKinds \/ IsNilPtr(n)) =>
               ret = Fail("errPathToLong")
        /\ (\E n \in Positions(graph, op.elems, FALSE) : IsNilPtr(n)) =>
               ret = Ok(NilIface)

\* one element past the unset last name of a person
C21_Witness ==
    /\ op.name = "GetPathInterface" /\ ~op.raw
    /\ op.elems = <<sLastName, sJunk>>
    /\ graph.t = tPerson /\ IsNilPtr(graph.v[2])
    /\ ret = Fail("errPathToLong")


\* the records the chain of elements stands on before its last element
RecordsBeforeLast ==
    {n \in Positions(graph, SubSeq(op.elems, 1, Len(op.elems) - 1), FALSE) : n.t.kind = "struct"}

\* the fields of primitive kind the chain of elements ends on
PrimitiveFieldsAtEnd ==
    IF op.elems = <<>> \/ RecordsBeforeLast = {} THEN {}
    ELSE {n \in Positions(graph, op.elems, FALSE) : n.t.kind \in ScalarKinds}

(* C22: for a path that ends on a record field of a primitive kind (boolean,
   a signed or unsigned integer of any width, a float or a complex of either
   width, a string), exported or not, GetPathInterface returns the value of the
   field as a scalar of that kind and no error. *)
C22_EveryPrimitiveKind ==
    (op.name = "GetPathInterface" /\ ~op.raw /\ PrimitiveFieldsAtEnd # {}) =>
        /\ ret.err = "nil"
        /\ \E n \in PrimitiveFieldsAtEnd : ret.val.type.kind = n.t.kind /\ ret.val.v = n.v


-----------------------------------------------------------------------------
(* What the further claims about the tokenizer speak of *)

\* the positions of the scanned text the loop reaches
MetPositions == {i \in 1..Len(Scanned) : ModeAt(i).err = "nil"}

(* C23: a control character met by the tokenizer makes it fail with the
   control-character error in every mode: outside and inside brackets, inside
   quotes, and right after the escape sign. *)
C23_ControlCharAlwaysFails ==
    (op.name = "parsePath" /\ op.raw /\ IsScanned) =>
        \A i \in MetPositions :
            Scanned[i] \in ControlChars => FailsWith("errControlChar")

(* C23, amended: a control character met outside and inside brackets and inside
   quotes fails with the control-character error; right after the escape sign
   it fails with the unknown-escape-character error. *)
C23_ControlCharFailsByMode ==
    (op.name = "parsePath" /\ op.raw /\ IsScanned) =>
        \A i \in MetPositions :
            Scanned[i] \in ControlChars =>
                IF ModeAt(i).esc THEN FailsWith("errUnknownEscChar")
                ELSE FailsWith("errControlChar")

\* a tab inside quotes
C23_Witness ==
    /\ op.name = "parsePath" /\ op.raw
    /\ op.path = <<"[", "\"", "\t", "a">>
    /\ FailsWith("errControlChar")


\* the characters that quotes make part of an element
QuotableChars == {".", "/", "[", "]", " "}

(* C24: inside quotes the characters '.', '/', '[', ']' and the space are added
   to the element under construction as they are, and nothing else changes (no
   element is closed, the brackets stay as they were); a space met outside
   quotes fails with the space-not-permitted error. *)
C24_QuotesAdmitSeparators ==
    (op.name = "parsePath" /\ op.raw /\ IsScanned) =>
        \A i \in MetPositions :
            /\ (ModeAt(i).quo /\ ~ModeAt(i).esc /\ Scanned[i] \in QuotableChars) =>
                   ModeAt(i + 1) = [ModeAt(i) EXCEPT !.element = Append(@, Scanned[i])]
            /\ (~ModeAt(i).quo /\ Scanned[i] = " ") => FailsWith("errSpaceInElement")

\* a dot and a space between quotes make one element
C24_Witness ==
    /\ op.name = "parsePath" /\ op.raw
    /\ op.path = <<"\"", ".", " ", "\"">>
    /\ ret.err = "nil" /\ Tokens = <<<<".", " ">>>>


(* C29: every element of a path the tokenizer accepts is non-empty: whenever
   parsePath returns no error, none of the elements it returns has length
   zero (empty brackets, empty quotes and repeated separators add nothing). *)
C29_NoEmptyElement ==
    (op.name = "parsePath" /\ ret.err = "nil") =>
        \A i \in 1..Len(Tokens) : Tokens[i] # <<>>

\* two separators in a row between two elements
C29_Witness ==
    /\ op.name = "parsePath" /\ op.raw
    /\ op.path = <<"a", ".", "/", "a">>
    /\ ret.err = "nil" /\ Tokens = <<<<"a">>, <<"a">>>>

-----------------------------------------------------------------------------
(* What the claims about timestamps speak of *)

\* the fields of the root record that are timestamps or optional references to
\* one
Timestamps ==
    IF pre.t.kind # "struct" THEN {}
    ELSE {i \in 1..Len(pre.v) : DerefType(pre.v[i].t) = tTime}

\* September 4, 1990, 0:00 UTC: 726713 days after January 1 of year 1
BirthDay == Val(tTime, <<Val(tUint64, 0), Val(tInt64, 726713), Nil(tLocation)>>)

\* C25: SetDefaults on a record with timestamp fields always completes; a
\* timestamp field without a descriptor is afterwards exactly what it was
\* (nothing inside it is visited), and one with the descriptor "04.09.1990" in
\* the layout "02.01.2006" holds that day, with no error returned.
C25_TimestampsNotWalked ==
    (op.name = "SetDefaults" /\ Timestamps # {}) =>
        /\ ret.err # "panic"
        /\ \A i \in Timestamps :
              /\ pre.t.fields[i].tag = <<>> => graph.v[i] = pre.v[i]
              /\ (pre.t.fields[i].tag = dDay /\ pre.t.fields[i].layout = dDayLayout) =>
                     (ret.err = "nil" /\ graph.v[i].v # <<>> /\ Innermost(graph.v[i]) = BirthDay)

\* the preset an identifier names, whatever the case of its letters; 0 for none
PresetNamed(l) ==
    LET hits == {i \in 1..Len(Presets) : EqualFold(Presets[i].id, l)}
    IN IF hits = {} THEN 0 ELSE CHOOSE i \in hits : TRUE

\* the layout a layout key stands for: RFC3339 for the empty key, the preset's
\* layout for a preset identifier in any spelling
LayoutMeant(l) == IF l = <<>> THEN RFC3339 ELSE Presets[PresetNamed(l)].layout

\* the record holds a timestamp whose layout key is empty or names a preset and
\* whose descriptor is a timestamp written in the layout the key stands for
WrittenInPreset ==
    /\ pre.t.kind = "struct" /\ pre.t.name = "stamped"
    /\ pre.t.fields[2].tag # <<>> /\ ToLower(pre.t.fields[2].tag) # <<"n", "o", "w">>
    /\ (pre.t.fields[2].layout = <<>> \/ PresetNamed(pre.t.fields[2].layout) # 0)
    /\ Parse(LayoutMeant(pre.t.fields[2].layout), pre.t.fields[2].tag).ok

\* C26: a layout key that is a preset identifier, in lower case, in upper case
\* or in mixed case, stands for that preset's layout, and the empty key for
\* RFC3339: a descriptor written in that layout is parsed without error and the
\* field holds the instant it denotes.
C26_PresetsCaseInsensitive ==
    (op.name = "SetDefaults" /\ WrittenInPreset) =>
        /\ ret.err = "nil"
        /\ graph.v[2] = Parse(LayoutMeant(pre.t.fields[2].layout), pre.t.fields[2].tag).t

-----------------------------------------------------------------------------
(* What the claim about complex descriptors speaks of *)

\* the descriptor is written <real>+<imag>i: two parts around its one '+', the
\* second ending in 'i', and both (the second without the 'i') decimal numbers
StrictComplex(tag) ==
    LET parts == Split(tag, "+")
    IN /\ Len(parts) = 2
       /\ parts[2] # <<>> /\ parts[2][Len(parts[2])] = "i"
       /\ ParseFloat(parts[1], 64).ok
       /\ ParseFloat(SubSeq(parts[2], 1, Len(parts[2]) - 1), 64).ok

\* the number such a descriptor denotes
ComplexMeant(tag) ==
    LET parts == Split(tag, "+")
    IN Complex(ParseFloat(parts[1], 64).v, ParseFloat(SubSeq(parts[2], 1, Len(parts[2]) - 1), 64).v)

\* the record of two complex fields with one descriptor
ComplexRecord ==
    pre.t.kind = "struct" /\ pre.t.fields[1].name = sC128 /\ pre.t.fields[1].tag # <<>>

\* C27: a complex descriptor written <real>+<imag>i is accepted and gives the
\* field the real part <real> and the imaginary part <imag>; every other
\* descriptor, one without the closing 'i' included, makes SetDefaults fail
\* with 'invalid syntax' on the first complex field and changes nothing.
C27_ComplexGrammarStrict ==
    (op.name = "SetDefaults" /\ ComplexRecord) =>
        IF StrictComplex(pre.t.fields[1].tag)
        THEN /\ ret.err = "nil"
             /\ graph.v[1].v = ComplexMeant(pre.t.fields[1].tag)
             /\ graph.v[2].v = ComplexMeant(pre.t.fields[1].tag)
        ELSE /\ ret.err = "failed to parse default tag for field c128: invalid syntax"
             /\ graph = pre

-----------------------------------------------------------------------------
(* What the claim about the frame of SetDefaults speaks of *)

\* b is a with nothing changed but fields that carry a descriptor: inside such
\* a field (free) scalars, timestamps and optional references may differ;
\* everywhere a sequence has the elements it had, position by position, and a
\* map the keys it had
RECURSIVE FrameKept(_, _, _)
FrameKept(a, b, free) ==
    /\ a.t = b.t
    /\ IF a.t.kind = "ptr"
       THEN IF a.v = <<>> \/ b.v = <<>> THEN free \/ a.v = b.v ELSE FrameKept(a.v[1], b.v[1], free)
       ELSE IF a.t.kind = "struct"
       THEN (free /\ a.t = tTime)
            \/ \A i \in 1..Len(a.v) : FrameKept(a.v[i], b.v[i], free \/ a.t.fields[i].tag # <<>>)
       ELSE IF a.t.kind = "slice" /\ a.t # TBytes
       THEN Len(a.v) = Len(b.v) /\ \A i \in 1..Len(a.v) : FrameKept(a.v[i], b.v[i], free)
       ELSE IF a.t.kind = "map"
       THEN DOMAIN a.v = DOMAIN b.v /\ \A key \in DOMAIN a.v : FrameKept(a.v[key], b.v[key], free)
       ELSE free \/ a.v = b.v

-----------------------------------------------------------------------------
(* What the claim about a failure inside a map of records speaks of *)

\* the keys of the map in the order the call iterated them
Iterated == SelectSeq(op.elems, LAMBDA key : key \in DOMAIN pre.v)

\* a descriptor somewhere in the value fails to parse
BadIn(n) == \E i \in 1..Len(Flatten(n, <<>>, op.elems)) : IsBad(Flatten(n, <<>>, op.elems)[i])

\* the call was given a map of records held by value and failed on one of them
FailedInRecordMap ==
    /\ op.name = "SetDefaults"
    /\ pre.t.kind = "map" /\ pre.t.elem.kind = "struct"
    /\ ret.err \notin {"nil", "panic"}
    /\ \E j \in 1..Len(Iterated) : BadIn(pre.v[Iterated[j]])

\* the position of the first key whose value fails
FailedAt ==
    CHOOSE j \in 1..Len(Iterated) :
        BadIn(pre.v[Iterated[j]]) /\ \A h \in 1..(j - 1) : ~BadIn(pre.v[Iterated[h]])

\* the value under the key holds the default of each of its descriptors
FilledUnder(key) ==
    \A i \in 1..Len(Flatten(pre.v[key], <<>>, op.elems)) :
        HasDefault(Flatten(pre.v[key], <<>>, op.elems)[i]) =>
            HoldsDefault(Flatten(pre.v[key], <<>>, op.elems)[i], Flatten(graph.v[key], <<>>, op.elems)[i])

\* C30: when SetDefaults fails on a value of a map of records held by value,
\* the entry of that value is afterwards exactly what it was before the call,
\* and the entries iterated before it hold their defaults.
C30_FailedEntryUntouched ==
    FailedInRecordMap =>
        /\ graph.v[Iterated[FailedAt]] = pre.v[Iterated[FailedAt]]
        /\ \A j \in 1..(FailedAt - 1) : FilledUnder(Iterated[j])

\* what of a record a copy of it holds itself: its scalars, at any depth of
\* records held by value, without what its sequences, maps and optional
\* references lead to
RECURSIVE OwnPart(_)
OwnPart(n) ==
    IF n.t.kind = "struct" THEN [n EXCEPT !.v = [i \in 1..Len(n.v) |-> OwnPart(n.v[i])]]
    ELSE IF n.t.kind \in {"ptr", "slice", "map"} THEN Val(n.t, <<>>)
    ELSE n

\* C30, amended: when SetDefaults fails on a value of a map of records held by
\* value, the fields the record holds itself are afterwards what they were
\* before the call (no default written to the copy is stored back), its
\* sequences and maps have the lengths and keys they had, and the entries
\* iterated before it hold their defaults; the elements of a sequence of the
\* record are not part of the copy and keep what was written to them.
C30_FailedEntryKeepsOwnFields ==
    FailedInRecordMap =>
        /\ OwnPart(graph.v[Iterated[FailedAt]]) = OwnPart(pre.v[Iterated[FailedAt]])
        /\ SameShape(pre.v[Iterated[FailedAt]], graph.v[Iterated[FailedAt]])
        /\ \A j \in 1..(FailedAt - 1) : FilledUnder(Iterated[j])

\* a map of two records, iterated k first: k holds no sequence element and
\* is filled; j holds an element whose boolean descriptor fails: the name of j
\* is still empty, the name of its element was written
C30_Witness ==
    /\ FailedInRecordMap
    /\ pre.t.elem.name = "box" /\ DOMAIN pre.v = MapKeyNames
    /\ Iterated = <<<<"k">>, <<"j">>>>
    /\ pre.v[<<"k">>].v[2].v = <<>> /\ Len(pre.v[<<"j">>].v[2].v) = 1
    /\ pre.v[<<"k">>].v[1].v = <<>> /\ graph.v[<<"k">>].v[1].v = dJo
    /\ graph.v[<<"j">>].v[1].v = <<>>
    /\ pre.v[<<"j">>].v[2].v[1].v[1].v = <<>> /\ graph.v[<<"j">>].v[2].v[1].v[1].v = dJo
    /\ ret.err = "failed to parse default tag for field isMale: invalid syntax"

====
